---- MODULE Spec2Model ----
(***************************************************************************)
(* The load-more content script (src/content.js with its modules           *)
(* src/modules/detection.js, src/modules/execution.js and the selector     *)
(* registry) as a state machine: the page analysis cache, the page         *)
(* analyzer, the choice of the recommended method and the expansion        *)
(* controller with its timers.                                             *)
(*                                                                         *)
(* One JavaScript event loop runs the script, so every action below is one *)
(* run-to-completion task: a message handler, or the part of               *)
(* performExpansion between two awaits.  The page is the environment: what *)
(* a click, a scroll or a time step does to it is chosen with \E.          *)
(*                                                                         *)
(* Spec is the expansion controller on a page.  SpecCache and SpecHash     *)
(* call the cache directly, SpecScan sends SCAN_PAGE_CONTENT messages and  *)
(* SpecMethod applies determineRecommendedMethod to analyzed pages.        *)
(* SpecMessages sends messages to the listener of src/content.js and       *)
(* SpecDist to the listener of src/dist/content.js; SpecInjected runs the  *)
(* injected page script; SpecThrottle and SpecQuery call the utilities     *)
(* throttle and queryElements of detection.js.  SpecAnalyzer runs the page *)
(* analyzers on documents of scored elements, SpecScroll the retry chain   *)
(* and the highlight timers of the scroll to the load-more button,         *)
(* SpecUnload the controller with auto-detection and the unload events,    *)
(* SpecRate the rate limiter and SpecBackground the message listener of    *)
(* the background script with its pending tab queries and injections.      *)
(* SpecRestart starts a second session beside a stopped one, SpecStatic    *)
(* runs the controller on a page that never changes, with fair timers,     *)
(* SpecExpand calls expandHiddenContent on hidden elements, SpecKeys       *)
(* presses the keyboard shortcuts and SpecTracking runs auto-detection on  *)
(* elements with inline borders.                                           *)
(***************************************************************************)
EXTENDS Integers, Sequences, FiniteSets

VARIABLES
    page,             \* the document, as far as the script reads or changes it
    url,              \* window.location.href
    now,              \* Date.now(), in ms
    cache,            \* pageAnalysisCache: data, timestamp, url, domHash
    loadMoreActive,   \* window.loadMoreActive
    loadMoreStopped,  \* window.loadMoreStopped
    sessions,         \* one closure of startContentExpansion per start call
    events,           \* the EXPANSION_PROGRESS messages sent, in order
    alive,            \* FALSE once the page context has been unloaded
    lastCall,         \* the last direct call of a unit, with what it returned
    setAt,            \* the tracked element counts at the last cache set()
    scans,            \* the scanPageContent calls of SCAN_PAGE_CONTENT messages
    rateLimiter,      \* SecurityUtils.rateLimiter: the request times of the sender
    throttled,        \* the closure of one throttle(func, delay) and its calls
    autoDetection     \* autoDetectionState of the content script

vars == <<page, url, now, cache, loadMoreActive, loadMoreStopped, sessions,
          events, alive, lastCall, setAt, scans, rateLimiter, throttled,
          autoDetection>>

(***************************************************************************)
(* Bounds of the model.                                                    *)
(***************************************************************************)
MaxSessions == 1
MaxClicks == 3
MaxContent == 3
MaxHidden == 1
MaxEvents == 6
MaxCount == 11
MaxScans == 3
MaxEdits == 2
MaxRefs == 2

\* The number standing for undefined where JavaScript expects a number.
Undefined == 0 - 1

(***************************************************************************)
(* JavaScript values.  A string is the sequence of its words and of the    *)
(* separators between them ("load more" is <<"load", " ", "more">>), so    *)
(* that String.prototype.includes is a search for a contiguous run.        *)
(***************************************************************************)
Includes(text, pattern) ==
    \E i \in 0..(Len(text) - Len(pattern)) :
        \A j \in 1..Len(pattern) : text[i + j] = pattern[j]

\* x > y of JavaScript where x may be undefined: undefined > y is false.
JsGreater(x, y) == x # Undefined /\ x > y

\* Number.prototype.toString of a count, as its decimal digits.
RECURSIVE CountToString(_)
CountToString(n) ==
    IF n < 10 THEN <<n>> ELSE CountToString(n \div 10) \o <<n % 10>>


\* String.prototype.replace(a, b) with string arguments: the first a only.
RECURSIVE ReplaceFirst(_, _, _)
ReplaceFirst(str, a, b) ==
    IF str = <<>> THEN <<>>
    ELSE IF Head(str) = a THEN <<b>> \o Tail(str)
    ELSE <<Head(str)>> \o ReplaceFirst(Tail(str), a, b)

Min(a, b) == IF a < b THEN a ELSE b
Max(a, b) == IF a > b THEN a ELSE b

(***************************************************************************)
(* The page.  It holds at most one load-more <button> and one load-more    *)
(* <a href>, each absent, present but not displayed, or visible, with or   *)
(* without the class "load-more"; a visible <a class="next" href>Next</a>; *)
(* a .pagination element, a lazy image and an infinite-scroll marker;      *)
(* `hidden` sections with class "hidden" of full size; `content` content   *)
(* containers; and whether the window can still be scrolled down.          *)
(* otherKeys counts the other buttons and links of the page and kids the   *)
(* direct children of <body>: the two numbers the cache fingerprint reads. *)
(* clicks, rises and edits record what the page saw: the click() calls of  *)
(* the click strategy, how many of them made the measured content count    *)
(* rise, and how many times the document or its location was changed from *)
(* outside.                                                                *)
(***************************************************************************)
ElemStates == {"absent", "hidden", "visible"}

LoadMoreText == <<"load", " ", "more">>
LoadMoreClass == <<"load", "-", "more">>
NextText == <<"next">>

Present(st) == st # "absent"

\* The clickable elements of the page, in document order.
Clickables(pg) ==
    (IF Present(pg.btn)
       THEN <<[id |-> "btn", tag |-> "button", text |-> LoadMoreText,
               className |-> IF pg.btnClass THEN LoadMoreClass ELSE <<>>,
               ariaLabel |-> <<>>, elemId |-> <<>>, nth |-> 1,
               visible |-> pg.btn = "visible", disabled |-> FALSE,
               ariaDisabled |-> FALSE]>>
       ELSE <<>>)
    \o
    (IF Present(pg.lnk)
       THEN <<[id |-> "lnk", tag |-> "a", text |-> LoadMoreText,
               className |-> IF pg.lnkClass THEN LoadMoreClass ELSE <<>>,
               ariaLabel |-> <<>>, elemId |-> <<>>, nth |-> 2,
               visible |-> pg.lnk = "visible", disabled |-> FALSE,
               ariaDisabled |-> FALSE]>>
       ELSE <<>>)
    \o
    (IF pg.next
       THEN <<[id |-> "next", tag |-> "a", text |-> NextText,
               className |-> <<"next">>,
               ariaLabel |-> <<>>, elemId |-> <<>>, nth |-> 3,
               visible |-> TRUE, disabled |-> FALSE,
               ariaDisabled |-> FALSE]>>
       ELSE <<>>)

NoElement ==
    [id |-> "none", tag |-> "", text |-> <<>>, className |-> <<>>,
     ariaLabel |-> <<>>, elemId |-> <<>>, nth |-> 0, visible |-> FALSE,
     disabled |-> FALSE,
               ariaDisabled |-> FALSE]

\* SELECTORS.CACHE_KEY_ELEMENTS: button, a[href], [role="button"].
KeyElementCount(pg) ==
    (IF Present(pg.btn) THEN 1 ELSE 0) + (IF Present(pg.lnk) THEN 1 ELSE 0)
    + (IF pg.next THEN 1 ELSE 0) + pg.otherKeys

\* SELECTORS.ALL_ELEMENTS: html, head, body and everything in them.
AllElementCount(pg) ==
    3 + pg.kids + KeyElementCount(pg) + pg.content + pg.hidden
    + (IF pg.pager THEN 1 ELSE 0) + (IF pg.lazy THEN 1 ELSE 0)
    + (IF pg.infinite THEN 1 ELSE 0)

(***************************************************************************)
(* detection.js: the page analyzer.                                        *)
(***************************************************************************)
isElementVisible(e) == e.id # "none" /\ e.visible

LoadMorePatterns ==
    << <<"load", " ", "more">>, <<"show", " ", "more">>,
       <<"view", " ", "more">>, <<"see", " ", "more">>,
       <<"read", " ", "more">>, <<"more", " ", "results">>,
       <<"more", " ", "items">>, <<"more", " ", "posts">>,
       <<"more", " ", "content">>, <<"load", " ", "additional">>,
       <<"show", " ", "additional">>, <<"expand">>, <<"continue">> >>

matchesLoadMore(e) ==
    \E k \in 1..Len(LoadMorePatterns) :
        LET pattern == LoadMorePatterns[k] IN
        \/ Includes(e.text, pattern)
        \/ Includes(e.ariaLabel, pattern)
        \/ Includes(e.className, ReplaceFirst(pattern, " ", "-"))
        \/ Includes(e.elemId, ReplaceFirst(pattern, " ", "-"))

\* The score without Math.min(100, Math.max(0, ...)).
calculateElementConfidenceUnclamped(e) ==
    (IF Includes(e.text, <<"load", " ", "more">>)
        \/ Includes(e.text, <<"show", " ", "more">>) THEN 40
     ELSE IF Includes(e.text, <<"more">>) THEN 25
     ELSE IF Includes(e.text, <<"load">>) \/ Includes(e.text, <<"show">>) THEN 15
     ELSE 0)
    + (IF Includes(e.className, <<"load", "-", "more">>)
          \/ Includes(e.className, <<"show", "-", "more">>) THEN 30
       ELSE IF Includes(e.className, <<"more">>)
               \/ Includes(e.className, <<"expand">>) THEN 15
       ELSE 0)
    + (IF Includes(e.ariaLabel, <<"load", " ", "more">>)
          \/ Includes(e.ariaLabel, <<"show", " ", "more">>) THEN 20
       ELSE 0)
    + (IF isElementVisible(e) THEN 10 ELSE 0)
    - (IF e.disabled \/ e.ariaDisabled THEN 20 ELSE 0)

calculateElementConfidence(e) ==
    LET textPart ==
            IF Includes(e.text, <<"load", " ", "more">>)
               \/ Includes(e.text, <<"show", " ", "more">>) THEN 40
            ELSE IF Includes(e.text, <<"more">>) THEN 25
            ELSE IF Includes(e.text, <<"load">>) \/ Includes(e.text, <<"show">>)
                 THEN 15
            ELSE 0
        classPart ==
            IF Includes(e.className, <<"load", "-", "more">>)
               \/ Includes(e.className, <<"show", "-", "more">>) THEN 30
            ELSE IF Includes(e.className, <<"more">>)
                    \/ Includes(e.className, <<"expand">>) THEN 15
            ELSE 0
        ariaPart ==
            IF Includes(e.ariaLabel, <<"load", " ", "more">>)
               \/ Includes(e.ariaLabel, <<"show", " ", "more">>) THEN 20
            ELSE 0
        visiblePart == IF isElementVisible(e) THEN 10 ELSE 0
        disabledPart == IF e.disabled \/ e.ariaDisabled THEN 20 ELSE 0
    IN Min(100, Max(0, textPart + classPart + ariaPart + visiblePart
                       - disabledPart))

\* "#id", "tag.class" or "tag:nth-child(n)"; SelectorMatches also knows
\* the selector "tag".
generateElementSelector(e) ==
    IF e.elemId # <<>> THEN [kind |-> "id", tag |-> "", key |-> e.elemId, nth |-> 0]
    ELSE IF e.className # <<>>
        THEN [kind |-> "class", tag |-> e.tag, key |-> e.className, nth |-> 0]
    ELSE [kind |-> "nth", tag |-> e.tag, key |-> <<>>, nth |-> e.nth]

SelectorMatches(sel, e) ==
    CASE sel.kind = "id" -> e.elemId = sel.key
      [] sel.kind = "class" -> e.tag = sel.tag /\ e.className = sel.key
      [] sel.kind = "tag" -> e.tag = sel.tag
      [] OTHER -> e.tag = sel.tag /\ e.nth = sel.nth

\* queryElements(selector, document, true): the first match, or no element.
RECURSIVE FirstMatch(_, _)
FirstMatch(elems, sel) ==
    IF elems = <<>> THEN NoElement
    ELSE IF SelectorMatches(sel, Head(elems)) THEN Head(elems)
    ELSE FirstMatch(Tail(elems), sel)

\* Array.prototype.sort((a, b) => b.confidence - a.confidence): stable.
RECURSIVE InsertByConfidence(_, _)
InsertByConfidence(sorted, x) ==
    IF sorted = <<>> THEN <<x>>
    ELSE IF Head(sorted).confidence >= x.confidence
        THEN <<Head(sorted)>> \o InsertByConfidence(Tail(sorted), x)
    ELSE <<x>> \o sorted

RECURSIVE SortByConfidence(_)
SortByConfidence(list) ==
    IF list = <<>> THEN <<>>
    ELSE InsertByConfidence(SortByConfidence(SubSeq(list, 1, Len(list) - 1)),
                            list[Len(list)])

\* String.prototype.toLowerCase, word by word.
LowerWord(w) ==
    CASE w = "Load" -> "load"
      [] w = "More" -> "more"
      [] w = "Show" -> "show"
      [] OTHER -> w

ToLowerCase(str) == [i \in 1..Len(str) |-> LowerWord(str[i])]

\* The element as the analyzer reads it: text, aria-label, class and id in
\* lower case.
Lowered(e) ==
    [e EXCEPT !.text = ToLowerCase(@), !.ariaLabel = ToLowerCase(@),
              !.className = ToLowerCase(@), !.elemId = ToLowerCase(@)]

\* The lower-case reading `low` of the element is taken once.
Candidate(e) ==
    CHOOSE c \in {[elem |-> e.id, selector |-> generateElementSelector(e),
                   text |-> low.text,
                   confidence |-> calculateElementConfidence(low),
                   visible |-> isElementVisible(e)] : low \in {Lowered(e)}} : TRUE

RECURSIVE CandidatesOfTag(_, _)
CandidatesOfTag(elems, tag) ==
    IF elems = <<>> THEN <<>>
    ELSE (IF (\E low \in {Lowered(Head(elems))} : matchesLoadMore(low))
             /\ Head(elems).tag = tag
             THEN <<Candidate(Head(elems))>> ELSE <<>>)
         \o CandidatesOfTag(Tail(elems), tag)

\* A hiddenContent value: the analyzer stores a boolean, the fallback
\* snapshot of scanPageContent an array.
HiddenBool(b) == [isArray |-> FALSE, flag |-> b, items |-> <<>>]
HiddenArray(items) == [isArray |-> TRUE, flag |-> FALSE, items |-> items]
\* hiddenContent.length: undefined for a boolean.
HiddenLength(h) == IF h.isArray THEN Len(h.items) ELSE Undefined

\* The document as analyzePageContent queries it: the clickable elements in
\* document order, whether each selector group of the pattern flags has a
\* match, the number of hidden elements and of content containers.
Document(pg) ==
    [elems |-> Clickables(pg), pager |-> pg.pager, lazy |-> pg.lazy,
     infinite |-> pg.infinite, hidden |-> pg.hidden, content |-> pg.content]

\* The statements of the try block in order; an exception is raised while
\* the k-th clickable element is read (stage "element") or by the query of
\* a later stage, and "none" is the run without exception.
AnalyzerStages ==
    <<"element", "pagination", "lazyLoad", "infiniteScroll", "hiddenContent",
      "contentCount">>

NoFault == [stage |-> "none", k |-> 0]

StageIndex(stage) == CHOOSE i \in 1..Len(AnalyzerStages) : AnalyzerStages[i] = stage

\* The statement of `stage` has completed when the exception `fault` is raised.
StageDone(fault, stage) ==
    fault.stage = "none" \/ StageIndex(fault.stage) > StageIndex(stage)

\* The patterns object after the elements `seen` were read and the stages
\* before the exception `fault` have run.
FilledPatterns(seen, doc, fault) ==
    [buttons |-> CandidatesOfTag(seen, "button"),
     links |-> CandidatesOfTag(seen, "a"),
     pagination |-> StageDone(fault, "pagination") /\ doc.pager,
     lazyLoad |-> StageDone(fault, "lazyLoad") /\ doc.lazy,
     infiniteScroll |-> StageDone(fault, "infiniteScroll") /\ doc.infinite,
     hiddenContent |->
         HiddenBool(StageDone(fault, "hiddenContent") /\ doc.hidden > 0)]

\* analyzePageContent(): the patterns object is created before the try
\* block and filled in place; the return of the try block carries it sorted,
\* the return of the catch block carries it as filled so far with
\* contentCount 0 and the error message.
analyzePageContent(doc, u, t, fault) ==
    IF fault.stage = "none"
       THEN [patterns |->
                 [FilledPatterns(doc.elems, doc, fault)
                     EXCEPT !.buttons = SortByConfidence(@),
                            !.links = SortByConfidence(@)],
             contentCount |-> doc.content,
             timestamp |-> t,
             url |-> u]
       ELSE [patterns |->
                 FilledPatterns(IF fault.stage = "element"
                                   THEN SubSeq(doc.elems, 1, fault.k - 1)
                                   ELSE doc.elems, doc, fault),
             contentCount |-> 0,
             timestamp |-> t,
             url |-> u,
             error |-> fault.stage]

\* analyzePageContent() returns {patterns, contentCount, timestamp, url}.
AnalyzePageContent(pg, u, t) == analyzePageContent(Document(pg), u, t, NoFault)

(***************************************************************************)
(* content.js: pageAnalysisCache.                                          *)
(***************************************************************************)
CacheTtl == 30000

\* A snapshot in the cache is a reference to an object: ref names the
\* object (0 is null) and snap, when present, is its content.
NullData == [ref |-> 0]

EmptyCache == [data |-> NullData, timestamp |-> 0, url |-> "", domHash |-> <<>>]

generateDomHash(pg) ==
    CountToString(KeyElementCount(pg)) \o CountToString(pg.kids)

\* The age check of isValid with <= for <.
CacheFreshInclusive(t, timestamp) == t - timestamp <= CacheTtl

CacheFresh(t, timestamp) == t - timestamp < CacheTtl

isValid(c, pg, u, t) ==
    /\ c.data.ref # 0
    /\ CacheFresh(t, c.timestamp)
    /\ c.url = u
    /\ c.domHash = generateDomHash(pg)

CacheSet(data, pg, u, t) ==
    [data |-> data, timestamp |-> t, url |-> u, domHash |-> generateDomHash(pg)]

CacheGet(c, pg, u, t) == IF isValid(c, pg, u, t) THEN c.data ELSE NullData

CacheClear == EmptyCache

(***************************************************************************)
(* content.js: determineRecommendedMethod and scanPageContent.             *)
(***************************************************************************)
determineRecommendedMethod(patterns) ==
    IF Len(patterns.buttons) > 0 /\ patterns.buttons[1].confidence > 70
        THEN "button"
    ELSE IF Len(patterns.links) > 0 /\ patterns.links[1].confidence > 70
        THEN "link"
    ELSE IF patterns.infiniteScroll THEN "scroll"
    ELSE IF patterns.pagination THEN "pagination"
    ELSE IF patterns.lazyLoad THEN "scroll"
    ELSE IF JsGreater(HiddenLength(patterns.hiddenContent), 0) THEN "expand"
    ELSE "auto"

\* The "minimal safe response" of the catch block of scanPageContent.
SafeSnapshot ==
    [patterns |-> [buttons |-> <<>>, links |-> <<>>, infiniteScroll |-> FALSE,
                   pagination |-> FALSE, lazyLoad |-> FALSE,
                   hiddenContent |-> HiddenArray(<<>>)],
     contentCount |-> 0,
     detectionSummary |->
        [hasLoadMoreButtons |-> FALSE, hasLoadMoreLinks |-> FALSE,
         hasInfiniteScroll |-> FALSE, hasPagination |-> FALSE,
         hasLazyLoadedImages |-> FALSE, hasHiddenContent |-> FALSE,
         recommendedMethod |-> "none"],
     error |-> TRUE]

\* The object scanPageContent builds from what it calls `patterns`.  The
\* reads patterns.buttons.length, patterns.links.length and
\* patterns.hiddenContent.length throw a TypeError when `patterns` has no
\* such property.
SnapshotReadsSucceed(patterns) ==
    {"buttons", "links", "hiddenContent"} \subseteq DOMAIN patterns

BuildSnapshot(patterns, pg) ==
    [patterns |-> patterns,
     contentCount |-> pg.content,
     detectionSummary |->
        [hasLoadMoreButtons |-> Len(patterns.buttons) > 0,
         hasLoadMoreLinks |-> Len(patterns.links) > 0,
         hasInfiniteScroll |-> patterns.infiniteScroll,
         hasPagination |-> patterns.pagination,
         hasLazyLoadedImages |-> patterns.lazyLoad,
         hasHiddenContent |-> JsGreater(HiddenLength(patterns.hiddenContent), 0),
         recommendedMethod |-> determineRecommendedMethod(patterns)],
     error |-> FALSE]

\* scanPageContent(): the snapshot returned, the cache afterwards, whether
\* the analyzer ran and whether the snapshot is the cached object.
scanPageContent(c, pg, u, t) ==
    LET cachedResult == CacheGet(c, pg, u, t) IN
    IF cachedResult.ref # 0
        THEN [result |-> cachedResult.snap, cache |-> c, analysed |-> FALSE,
              fromCache |-> TRUE]
    ELSE LET patterns == AnalyzePageContent(pg, u, t) IN
         IF SnapshotReadsSucceed(patterns)
            THEN LET result == BuildSnapshot(patterns, pg) IN
                 [result |-> result,
                  cache |-> CacheSet([ref |-> 1, snap |-> result], pg, u, t),
                  analysed |-> TRUE, fromCache |-> FALSE]
            ELSE [result |-> SafeSnapshot, cache |-> c, analysed |-> TRUE,
                  fromCache |-> FALSE]

(***************************************************************************)
(* content.js: the strategies of the expansion controller.                 *)
(***************************************************************************)
getCurrentContentCount(pg) ==
    IF pg.content # 0 THEN pg.content ELSE AllElementCount(pg)

\* The first candidate of confidence > 60 whose selector resolves to a
\* visible element.
RECURSIVE FirstResolved(_, _)
FirstResolved(cands, elems) ==
    IF cands = <<>> THEN NoElement
    ELSE IF Head(cands).confidence > 60
            /\ isElementVisible(FirstMatch(elems, Head(cands).selector))
        THEN FirstMatch(elems, Head(cands).selector)
    ELSE FirstResolved(Tail(cands), elems)

\* The "traditional selectors" of findBestLoadMoreButton, in their order.
FallbackSelectorCount == 7

FallbackSelects(k, e) ==
    CASE k = 1 -> e.tag = "button" /\ Includes(e.className, <<"load", "-", "more">>)
                  /\ ~e.disabled
      [] k = 2 -> e.tag = "button" /\ Includes(e.className, <<"show", "-", "more">>)
                  /\ ~e.disabled
      [] k = 3 -> e.tag = "a" /\ Includes(e.className, <<"load", "-", "more">>)
      [] k = 4 -> e.tag = "a" /\ Includes(e.className, <<"show", "-", "more">>)
      [] k = 5 -> e.tag = "button" /\ ~e.disabled
      [] k = 6 -> e.tag = "a"
      [] OTHER -> FALSE

FallbackTexts ==
    << <<"load", " ", "more">>, <<"show", " ", "more">>,
       <<"view", " ", "more">>, <<"see", " ", "more">>, <<"next">> >>

FallbackTextMatches(e) ==
    \E k \in 1..Len(FallbackTexts) :
        Includes(e.text, FallbackTexts[k]) \/ Includes(e.ariaLabel, FallbackTexts[k])

RECURSIVE FirstFallbackIn(_, _)
FirstFallbackIn(elems, k) ==
    IF elems = <<>> THEN NoElement
    ELSE IF FallbackSelects(k, Head(elems)) /\ isElementVisible(Head(elems))
            /\ FallbackTextMatches(Head(elems))
        THEN Head(elems)
    ELSE FirstFallbackIn(Tail(elems), k)

RECURSIVE FirstFallback(_, _)
FirstFallback(elems, k) ==
    IF k > FallbackSelectorCount THEN NoElement
    ELSE IF FirstFallbackIn(elems, k).id # "none" THEN FirstFallbackIn(elems, k)
    ELSE FirstFallback(elems, k + 1)

findBestLoadMoreButton(c, pg, u, t) ==
    LET pageAnalysis == scanPageContent(c, pg, u, t).result
        elems == Clickables(pg)
        button == FirstResolved(pageAnalysis.patterns.buttons, elems)
        link == FirstResolved(pageAnalysis.patterns.links, elems)
    IN IF button.id # "none" THEN button
       ELSE IF link.id # "none" THEN link
       ELSE FirstFallback(elems, 1)

\* findNextPageLink(): the visible next-page link, if any.
findNextPageLink(pg) ==
    IF pg.next THEN FirstMatch(Clickables(pg), [kind |-> "class", tag |-> "a",
                                               key |-> <<"next">>, nth |-> 0])
    ELSE NoElement

\* expandHiddenContent(): the number of elements it un-hides.
expandHiddenContent(pg) == pg.hidden

\* The gates of the four strategies on the effective method.
ClickGate(method) == method = "auto" \/ method = "button"
ScrollGate(method) == method = "auto" \/ method = "scroll"
ExpandGate(method) == method = "auto" \/ method = "expand"
PaginationGate(method) == method = "auto" \/ method = "pagination"

\* The check at the top of performExpansion with > for >=.
CycleHaltsLate(stopped, clickCount, maxClicks) == stopped \/ clickCount > maxClicks

\* The check at the top of performExpansion.
CycleHalts(stopped, clickCount, maxClicks) == stopped \/ clickCount >= maxClicks

\* The comparison that decides a `loaded` event, with its sides exchanged.
ContentLoadedSwapped(newContentCount, lastContentCount) ==
    lastContentCount > newContentCount

\* The comparison that decides a `loaded` event, with >= for >.
ContentLoadedOrEqual(newContentCount, lastContentCount) ==
    newContentCount >= lastContentCount

\* The comparison that decides a `loaded` event.
ContentLoaded(newContentCount, lastContentCount) ==
    newContentCount > lastContentCount

\* The check before the next cycle is scheduled.
SchedulesNext(stopped) == ~stopped

\* The effective method of a session.
ExpansionMethod(method, recommendedMethod) ==
    IF method = "auto" THEN recommendedMethod ELSE method

(***************************************************************************)
(* content.js: startContentExpansion / performExpansion.                   *)
(*                                                                         *)
(* A session is one call of startContentExpansion: the closure variables   *)
(* clickCount, lastContentCount, maxClicks and expansionMethod, and where  *)
(* its performExpansion stands:                                            *)
(*   "preClick"    in `await sleep(500)` before the click,                 *)
(*   "postAction"  in `await sleep(delay)` after an action,                *)
(*   "timer"       setTimeout(performExpansion, 500) is pending,           *)
(*   "done"        performExpansion returned and nothing is pending,       *)
(*   "rejected"    an exception left performExpansion (the promise of the  *)
(*                 async function is rejected; nobody handles it),         *)
(*   "errored"     the catch block of startContentExpansion ran.           *)
(* The window flags are shared by all sessions.                            *)
(***************************************************************************)
Methods == {"auto", "button", "link", "scroll", "expand", "pagination"}

Running(se) == se.pc \in {"preClick", "postAction", "timer"}

RunningSessions == {i \in 1..Len(sessions) : Running(sessions[i])}

\* notifyProgress(action, count).  sid records which session sent the
\* message (0: none, stopContentExpansion sent it) and live, on a `stopped`
\* message, which sessions were running when it was sent.
Emit(sid, action, count) ==
    [sid |-> sid, action |-> action, count |-> count, live |-> {}]

\* What the environment does in a step: whether the page loads content,
\* whether the clicked element disappears, whether the click navigates away.
Outcomes == [grow : BOOLEAN, gone : BOOLEAN, unload : BOOLEAN]

\* Where an exception is raised in a step, if anywhere: in the code of
\* startContentExpansion before performExpansion is called ("start"), in
\* click() ("click"), in a cycle outside the try block of the click
\* ("cycle"), or after the sleep that follows an action ("late").
Faults == {"none", "start", "click", "cycle", "late"}

Grown(pg, o) ==
    IF o.grow /\ pg.content < MaxContent THEN pg.content + 1 ELSE pg.content

\* The page after element.click().
ClickEffect(pg, target, o) ==
    LET grown == [pg EXCEPT !.content = Grown(pg, o)]
        rose == getCurrentContentCount(grown) > getCurrentContentCount(pg)
        left == IF ~o.gone THEN grown
                ELSE IF target = "btn" THEN [grown EXCEPT !.btn = "absent", !.btnClass = FALSE]
                ELSE IF target = "lnk" THEN [grown EXCEPT !.lnk = "absent", !.lnkClass = FALSE]
                ELSE IF target = "next" THEN [grown EXCEPT !.next = FALSE]
                ELSE grown
    IN [left EXCEPT !.clicks = pg.clicks + 1,
                    !.rises = pg.rises + (IF rose THEN 1 ELSE 0)]

\* The page after nextPageLink.click(), when it stays loaded.
NextPageEffect(pg, o) == [pg EXCEPT !.content = Grown(pg, o)]

\* Whether the click unloads the page: a link may navigate.
ClickUnloads(target, o) == o.unload /\ target \in {"lnk", "next"}

\* The page after window.scrollTo(0, scrollHeight): at the bottom, unless
\* the page loads more content and grows.
ScrollEffect(pg, o) ==
    [pg EXCEPT !.content = Grown(pg, o),
               !.scrollable = Grown(pg, o) > pg.content]

\* The page after expandHiddenContent().
ExpandEffect(pg) == [pg EXCEPT !.hidden = 0]

\* A step's result: the session, the page, the events emitted, whether
\* loadMoreActive is set to false, whether the page context survives, and
\* the cache.
StepResult(se, pg, emitted, deactivate, survives, c) ==
    [se |-> se, page |-> pg, emitted |-> emitted, deactivate |-> deactivate,
     survives |-> survives, cache |-> c]

\* Methods 2 to 4 with the `!actionTaken` guard of method 3 left out: the
\* hidden content is expanded also in a cycle that scrolled.
LaterStrategiesUnguarded(sid, se, pg, c, o) ==
    IF ScrollGate(se.method) /\ pg.scrollable
        THEN StepResult([se EXCEPT !.pc = "postAction"],
                        IF expandHiddenContent(pg) > 0
                           THEN ExpandEffect(ScrollEffect(pg, o))
                           ELSE ScrollEffect(pg, o),
                        IF expandHiddenContent(pg) > 0
                           THEN <<Emit(sid, "scrolled", se.clickCount),
                                  Emit(sid, "expanded", se.clickCount)>>
                           ELSE <<Emit(sid, "scrolled", se.clickCount)>>,
                        FALSE, TRUE, c)
    ELSE IF ExpandGate(se.method) /\ expandHiddenContent(pg) > 0
        THEN StepResult([se EXCEPT !.pc = "postAction"], ExpandEffect(pg),
                        <<Emit(sid, "expanded", se.clickCount)>>, FALSE, TRUE, c)
    ELSE IF PaginationGate(se.method) /\ findNextPageLink(pg).id # "none"
        THEN StepResult([se EXCEPT !.pc = "postAction"],
                        NextPageEffect(pg, o),
                        <<Emit(sid, "pagination", se.clickCount)>>, FALSE,
                        ~ClickUnloads("next", o), c)
    ELSE StepResult([se EXCEPT !.pc = "done"], pg,
                    <<Emit(sid, "complete", se.clickCount)>>, TRUE, TRUE, c)

\* Methods 2 to 4 of performExpansion and its end, for a cycle in which the
\* click strategy did not act.
LaterStrategies(sid, se, pg, c, o) ==
    IF ScrollGate(se.method) /\ pg.scrollable
        THEN StepResult([se EXCEPT !.pc = "postAction"], ScrollEffect(pg, o),
                        <<Emit(sid, "scrolled", se.clickCount)>>, FALSE, TRUE, c)
    ELSE IF ExpandGate(se.method) /\ expandHiddenContent(pg) > 0
        THEN StepResult([se EXCEPT !.pc = "postAction"], ExpandEffect(pg),
                        <<Emit(sid, "expanded", se.clickCount)>>, FALSE, TRUE, c)
    ELSE IF PaginationGate(se.method) /\ findNextPageLink(pg).id # "none"
        THEN StepResult([se EXCEPT !.pc = "postAction"],
                        NextPageEffect(pg, o),
                        <<Emit(sid, "pagination", se.clickCount)>>, FALSE,
                        ~ClickUnloads("next", o), c)
    ELSE StepResult([se EXCEPT !.pc = "done"], pg,
                    <<Emit(sid, "complete", se.clickCount)>>, TRUE, TRUE, c)

\* performExpansion from its start to its first await or to its return.
CycleStart(sid, se, stopped, pg, c, u, t, f, o) ==
    IF CycleHalts(stopped, se.clickCount, se.maxClicks)
        THEN StepResult([se EXCEPT !.pc = "done"], pg,
                        <<Emit(sid, "complete", se.clickCount)>>, TRUE, TRUE, c)
    ELSE IF f = "cycle"
        THEN StepResult([se EXCEPT !.pc = "rejected"], pg, <<>>, FALSE, TRUE, c)
    ELSE IF ClickGate(se.method)
        THEN LET loadMoreButton == findBestLoadMoreButton(c, pg, u, t)
                 c2 == scanPageContent(c, pg, u, t).cache
             IN IF isElementVisible(loadMoreButton)
                   THEN StepResult([se EXCEPT !.pc = "preClick",
                                              !.target = loadMoreButton.id],
                                   pg, <<>>, FALSE, TRUE, c2)
                   ELSE LaterStrategies(sid, se, pg, c2, o)
    ELSE LaterStrategies(sid, se, pg, c, o)

\* The catch block of the click: the exception is logged and swallowed.
AfterClickThrowsAborts(sid, se, pg, c, o) ==
    StepResult([se EXCEPT !.pc = "rejected", !.clickFailed = TRUE, !.target = "none"],
               pg, <<>>, FALSE, TRUE, c)

\* actionTaken is still false, so the cycle goes on with methods 2 to 4.
AfterClickThrows(sid, se, pg, c, o) ==
    LaterStrategies(sid, [se EXCEPT !.clickFailed = TRUE, !.target = "none"],
                    pg, c, o)

\* performExpansion from the end of sleep(500) to its next await or return.
AfterPreClickSleep(sid, se, pg, c, f, o) ==
    IF f = "click"
        THEN AfterClickThrows(sid, se, pg, c, o)
    ELSE StepResult([se EXCEPT !.pc = "postAction", !.target = "none",
                               !.clickCount = se.clickCount + 1],
                    ClickEffect(pg, se.target, o),
                    <<Emit(sid, "clicked", se.clickCount + 1)>>, FALSE,
                    ~ClickUnloads(se.target, o), c)

\* performExpansion from the end of sleep(delay) to its return.
AfterDelay(sid, se, stopped, pg, c, f) ==
    IF f = "late"
        THEN StepResult([se EXCEPT !.pc = "rejected"], pg, <<>>, FALSE, TRUE, c)
    ELSE LET newContentCount == getCurrentContentCount(pg)
             loaded == ContentLoaded(newContentCount, se.lastContentCount)
         IN StepResult(
                [se EXCEPT !.pc = IF SchedulesNext(stopped) THEN "timer" ELSE "done",
                           !.lastContentCount =
                               IF loaded THEN newContentCount ELSE se.lastContentCount],
                pg,
                IF loaded THEN <<Emit(sid, "loaded", se.clickCount)>> ELSE <<>>,
                FALSE, TRUE, c)

\* The state after a step of session sid with result r.
Apply(sid, r) ==
    /\ sessions' = IF sid <= Len(sessions) THEN [sessions EXCEPT ![sid] = r.se]
                   ELSE Append(sessions, r.se)
    /\ page' = r.page
    /\ events' = events \o r.emitted
    /\ alive' = r.survives
    /\ cache' = r.cache

\* startContentExpansion called with these values of maxClicks, delay and
\* method, with the first cycle, which runs inside the call up to its first
\* await: what it does to the script's state.  The session keeps delay for
\* its sleeps; the model does not measure them.
StartExpansion(maxClicks, delay, method, f, o) ==
    /\ f \in {"none", "start", "cycle"}
    /\ LET sid == Len(sessions) + 1
           scan == scanPageContent(cache, page, url, now)
           se == [pc |-> "timer", clickCount |-> 0,
                  lastContentCount |-> getCurrentContentCount(page),
                  maxClicks |-> maxClicks, delay |-> delay, requested |-> method,
                  method |-> ExpansionMethod(method,
                                 scan.result.detectionSummary.recommendedMethod),
                  target |-> "none", clickFailed |-> FALSE]
       IN IF f = "start"
            THEN /\ Apply(sid, StepResult([se EXCEPT !.pc = "errored"], page,
                                          <<Emit(sid, "error", 0)>>, TRUE, TRUE, cache))
                 /\ loadMoreActive' = FALSE
                 /\ loadMoreStopped' = TRUE
            ELSE LET r == CycleStart(sid, se, FALSE, page, scan.cache, url, now, f, o)
                 IN /\ Apply(sid, r)
                    /\ loadMoreActive' = ~r.deactivate
                    /\ loadMoreStopped' = FALSE
    /\ UNCHANGED <<url, now, setAt, scans, rateLimiter, throttled, autoDetection>>

\* The defaults of the destructuring in startContentExpansion.
DefaultMaxClicks == 10
DefaultDelay == 2000

\* startContentExpansion({maxClicks, method}).
Start(maxClicks, method, f, o) ==
    /\ alive
    /\ Len(sessions) < MaxSessions
    /\ Len(events) < MaxEvents
    /\ StartExpansion(maxClicks, DefaultDelay, method, f, o)
    /\ UNCHANGED lastCall

\* A later step of a session: r is its result.
Step(sid, r) ==
    /\ Apply(sid, r)
    /\ loadMoreActive' = (loadMoreActive /\ ~r.deactivate)
    /\ UNCHANGED <<loadMoreStopped, url, now, lastCall, setAt, scans, rateLimiter,
                   throttled, autoDetection>>

\* The timer set by setTimeout(performExpansion, 500) fires.
TimerFires(sid, f, o) ==
    /\ alive
    /\ sid \in 1..Len(sessions)
    /\ sessions[sid].pc = "timer"
    /\ Len(events) < MaxEvents
    /\ f \in {"none", "cycle"}
    /\ Step(sid, CycleStart(sid, sessions[sid], loadMoreStopped, page, cache,
                            url, now, f, o))

\* sleep(500) before the click ends.
PreClickSleepEnds(sid, f, o) ==
    /\ alive
    /\ sid \in 1..Len(sessions)
    /\ sessions[sid].pc = "preClick"
    /\ Len(events) < MaxEvents
    /\ f \in {"none", "click"}
    /\ Step(sid, AfterPreClickSleep(sid, sessions[sid], page, cache, f, o))

\* sleep(delay) after an action ends.
DelayEnds(sid, f) ==
    /\ alive
    /\ sid \in 1..Len(sessions)
    /\ sessions[sid].pc = "postAction"
    /\ Len(events) < MaxEvents
    /\ f \in {"none", "late"}
    /\ Step(sid, AfterDelay(sid, sessions[sid], loadMoreStopped, page, cache, f))

\* stopContentExpansion(): what it does to the script's state.
StopExpansion ==
    /\ loadMoreStopped' = TRUE
    /\ loadMoreActive' = FALSE
    /\ events' = Append(events, [sid |-> 0, action |-> "stopped", count |-> 0,
                                 live |-> RunningSessions])
    /\ UNCHANGED <<page, url, now, cache, sessions, alive, setAt, scans, throttled,
                   autoDetection>>

Stop ==
    /\ alive
    /\ Len(events) < MaxEvents
    /\ StopExpansion
    /\ UNCHANGED <<lastCall, rateLimiter>>

(***************************************************************************)
(* The expansion controller and the page it runs on.                       *)
(***************************************************************************)
\* The fields of a page that the controller does not read are fixed here;
\* the analyzer's specification below draws them.
InitPages ==
    {pg \in [btn : ElemStates, btnClass : BOOLEAN, lnk : {"absent", "visible"},
             lnkClass : BOOLEAN, next : BOOLEAN, pager : {FALSE},
             lazy : {FALSE}, infinite : {FALSE}, hidden : 0..MaxHidden,
             content : 0..1, scrollable : BOOLEAN, otherKeys : {0},
             kids : {1}, clicks : {0}, rises : {0}, edits : {0}] :
        /\ (pg.btn = "absent" => ~pg.btnClass)
        /\ (pg.btn = "hidden" => pg.btnClass)
        /\ (pg.lnk = "absent" <=> ~pg.lnkClass)}

NoCall == [op |-> "none"]

\* autoDetectionState as the script creates it: not tracking, no interval,
\* no tracked element; unloads counts the page-unload events dispatched.
NoDetection ==
    [isTracking |-> FALSE, detectionInterval |-> FALSE, trackedElements |-> {},
     unloads |-> 0]

\* The closure that throttle(func, delay) creates: lastExecTime = 0 and no
\* timeout; calls and invoked record the calls of the throttled function
\* and the invocations of func, with their arguments and times.
NoTimeout == [set |-> FALSE]

NewThrottle ==
    [lastExecTime |-> 0, timeoutId |-> NoTimeout, calls |-> <<>>, invoked |-> <<>>]

\* The state of a freshly loaded content script on page pg.
Loaded(pg) ==
    /\ page = pg
    /\ url = "u1"
    /\ now = 0
    /\ cache = EmptyCache
    /\ loadMoreActive = FALSE
    /\ loadMoreStopped = FALSE
    /\ sessions = <<>>
    /\ events = <<>>
    /\ alive = TRUE
    /\ lastCall = NoCall
    /\ setAt = <<0, 0>>
    /\ scans = <<>>
    /\ rateLimiter = <<>>
    /\ throttled = NewThrottle
    /\ autoDetection = NoDetection

Init == \E pg \in InitPages : Loaded(pg)

\* The values of maxClicks that sessions are started with.
ClickLimits == {0, MaxClicks}

\* The methods that START_EXPANSION messages ask for: those the controller
\* knows and the two that the popup sends.
RequestedMethods == Methods \cup {"single", "all"}

Next ==
    \/ \E maxClicks \in ClickLimits, method \in RequestedMethods, f \in Faults,
          o \in Outcomes : Start(maxClicks, method, f, o)
    \/ \E sid \in 1..MaxSessions, f \in Faults, o \in Outcomes : TimerFires(sid, f, o)
    \/ \E sid \in 1..MaxSessions, f \in Faults, o \in Outcomes :
          PreClickSleepEnds(sid, f, o)
    \/ \E sid \in 1..MaxSessions, f \in Faults : DelayEnds(sid, f)
    \/ Stop

Spec == Init /\ [][Next]_vars

(***************************************************************************)
(* The environment of the units: time passes, the location changes without *)
(* a reload (history.pushState), the page's scripts change the document.   *)
(***************************************************************************)
Urls == {"u1", "u2"}

\* Date.now() advances by d ms.
Tick(d) ==
    /\ now + d <= 2 * CacheTtl
    /\ now' = now + d
    /\ lastCall' = NoCall
    /\ UNCHANGED <<page, url, cache, loadMoreActive, loadMoreStopped, sessions,
                   events, alive, setAt, scans, rateLimiter, throttled,
                   autoDetection>>

Navigate(u) ==
    /\ u # url
    /\ page.edits < MaxEdits
    /\ url' = u
    /\ page' = [page EXCEPT !.edits = page.edits + 1]
    /\ lastCall' = NoCall
    /\ UNCHANGED <<now, cache, loadMoreActive, loadMoreStopped, sessions, events,
                   alive, setAt, scans, rateLimiter, throttled, autoDetection>>

\* The page's scripts leave keys other buttons and links and kids children
\* of <body> in the document.
MutateDom(keys, kids) ==
    /\ page.edits < MaxEdits
    /\ <<keys, kids>> # <<page.otherKeys, page.kids>>
    /\ page' = [page EXCEPT !.otherKeys = keys, !.kids = kids,
                            !.edits = page.edits + 1]
    /\ lastCall' = NoCall
    /\ UNCHANGED <<url, now, cache, loadMoreActive, loadMoreStopped, sessions,
                   events, alive, setAt, scans, rateLimiter, throttled,
                   autoDetection>>

\* The time steps: half the lifetime of a cache entry, and 1 ms less than it.
TimeSteps == {CacheTtl \div 2, CacheTtl - 1}

\* A page without load-more elements, with the given tracked counts.
PlainPage(keys, kids) ==
    [btn |-> "absent", btnClass |-> FALSE, lnk |-> "absent", lnkClass |-> FALSE,
     next |-> FALSE, pager |-> FALSE, lazy |-> FALSE, infinite |-> FALSE,
     hidden |-> 0, content |-> 1, scrollable |-> FALSE, otherKeys |-> keys,
     kids |-> kids, clicks |-> 0, rises |-> 0, edits |-> 0]

TrackedCounts(pg) == <<KeyElementCount(pg), pg.kids>>

(***************************************************************************)
(* pageAnalysisCache called directly: set(data), get() and clear().        *)
(***************************************************************************)
\* pageAnalysisCache.set(data) with data the snapshot object number ref.
CacheSetCall(ref) ==
    /\ cache' = CacheSet([ref |-> ref, snap |-> SafeSnapshot], page, url, now)
    /\ setAt' = TrackedCounts(page)
    /\ lastCall' = [op |-> "set"]
    /\ UNCHANGED <<page, url, now, loadMoreActive, loadMoreStopped, sessions,
                   events, alive, scans, rateLimiter, throttled, autoDetection>>

\* pageAnalysisCache.get(); entry is the cache entry the call found.
CacheGetCall ==
    /\ lastCall' = [op |-> "get", ret |-> CacheGet(cache, page, url, now),
                    entry |-> cache]
    /\ UNCHANGED <<page, url, now, cache, loadMoreActive, loadMoreStopped,
                   sessions, events, alive, setAt, scans, rateLimiter, throttled,
                   autoDetection>>

\* pageAnalysisCache.clear().
CacheClearCall ==
    /\ cache' = CacheClear
    /\ lastCall' = [op |-> "clear"]
    /\ UNCHANGED <<page, url, now, loadMoreActive, loadMoreStopped, sessions,
                   events, alive, setAt, scans, rateLimiter, throttled,
                   autoDetection>>

InitCache == \E keys \in 0..1, kids \in 1..2 : Loaded(PlainPage(keys, kids))

NextCache ==
    \/ \E ref \in 1..MaxRefs : CacheSetCall(ref)
    \/ CacheGetCall
    \/ CacheClearCall
    \/ \E d \in TimeSteps : Tick(d)
    \/ \E u \in Urls : Navigate(u)
    \/ \E keys \in 0..1, kids \in 1..2 : MutateDom(keys, kids)

SpecCache == InitCache /\ [][NextCache]_vars

\* The fingerprint of the cache over its whole range of counts, at one time
\* and location.
InitHash == Loaded(PlainPage(0, 1))

NextHash ==
    \/ CacheSetCall(1)
    \/ CacheGetCall
    \/ \E keys \in 0..MaxCount, kids \in 1..MaxCount : MutateDom(keys, kids)

SpecHash == InitHash /\ [][NextHash]_vars

(***************************************************************************)
(* content.js: the SCAN_PAGE_CONTENT message.                              *)
(***************************************************************************)
ScanMessage ==
    /\ Len(scans) < MaxScans
    /\ LET r == scanPageContent(cache, page, url, now) IN
       /\ cache' = r.cache
       /\ scans' = Append(scans, [at |-> now, edits |-> page.edits,
                                  analysed |-> r.analysed,
                                  fromCache |-> r.fromCache,
                                  error |-> r.result.error])
       /\ lastCall' = [op |-> "scan", ret |-> r.result]
    /\ UNCHANGED <<page, url, now, loadMoreActive, loadMoreStopped, sessions,
                   events, alive, setAt, rateLimiter, throttled, autoDetection>>

\* The pages the analyzer is run on.
AnalyzerPages ==
    {pg \in [btn : ElemStates, btnClass : BOOLEAN, lnk : ElemStates,
             lnkClass : BOOLEAN, next : {FALSE}, pager : BOOLEAN,
             lazy : BOOLEAN, infinite : BOOLEAN, hidden : 0..MaxHidden,
             content : {1}, scrollable : {FALSE}, otherKeys : {0},
             kids : {1}, clicks : {0}, rises : {0}, edits : {0}] :
        /\ (pg.btn = "absent" => ~pg.btnClass)
        /\ (pg.lnk = "absent" => ~pg.lnkClass)}

InitScan ==
    \E pg \in AnalyzerPages :
        pg.lnk = "absent" /\ ~pg.lazy /\ ~pg.infinite /\ Loaded(pg)

NextScan ==
    \/ ScanMessage
    \/ \E d \in TimeSteps : Tick(d)
    \/ \E u \in Urls : Navigate(u)
    \/ \E keys \in 0..1, kids \in 1..2 : MutateDom(keys, kids)

SpecScan == InitScan /\ [][NextScan]_vars

(***************************************************************************)
(* determineRecommendedMethod applied to what the analyzer finds on a page *)
(* and to the patterns of the fallback snapshot.                           *)
(***************************************************************************)
Recommend(patterns) ==
    /\ lastCall' = [op |-> "method", patterns |-> patterns,
                    ret |-> determineRecommendedMethod(patterns)]
    /\ UNCHANGED <<page, url, now, cache, loadMoreActive, loadMoreStopped,
                   sessions, events, alive, setAt, scans, rateLimiter, throttled,
                   autoDetection>>

RecommendAnalysed == Recommend(AnalyzePageContent(page, url, now).patterns)

RecommendFallback == Recommend(SafeSnapshot.patterns)

InitMethod == \E pg \in AnalyzerPages : Loaded(pg)

NextMethod ==
    \/ RecommendAnalysed
    \/ RecommendFallback

SpecMethod == InitMethod /\ [][NextMethod]_vars

(***************************************************************************)
(* Properties of the expansion controller.                                 *)
(***************************************************************************)
\* The progress actions of session sid, in the order they were emitted.
RECURSIVE ActionsOf(_, _)
ActionsOf(evs, sid) ==
    IF evs = <<>> THEN <<>>
    ELSE (IF Head(evs).sid = sid THEN <<Head(evs).action>> ELSE <<>>)
         \o ActionsOf(Tail(evs), sid)

StrategyActions == {"clicked", "scrolled", "expanded"}

\* C1: once stopContentExpansion has emitted `stopped`, a session that was
\* running at that moment emits no `clicked`, `scrolled` or `expanded`
\* event afterwards, wherever in its cycle it was suspended.
C1_SilentAfterStop ==
    \A j \in 1..Len(events) : \A k \in 1..Len(events) :
        (j < k /\ events[j].action = "stopped" /\ events[k].sid \in events[j].live)
            => events[k].action \notin StrategyActions

\* C2: the scenario of session i, the only session on the page: started
\* with maxClicks = 3, never stopped, the click strategy clicked twice and
\* the measured content count rose after each click, and then no strategy
\* acted, so the session returned.
C2Scenario(i) ==
    /\ Len(sessions) = 1
    /\ sessions[i].maxClicks = 3
    /\ sessions[i].pc = "done"
    /\ ~loadMoreStopped
    /\ page.clicks = 2
    /\ page.rises = 2

\* C2: in that scenario the session has halted Completed with clickCount 2
\* and active false, and the events it emitted are exactly clicked, loaded,
\* clicked, loaded, complete.
C2_LoopScenario ==
    \A i \in 1..Len(sessions) :
        C2Scenario(i) =>
            /\ sessions[i].clickCount = 2
            /\ ~loadMoreActive
            /\ ActionsOf(events, i)
                   = <<"clicked", "loaded", "clicked", "loaded", "complete">>

C2_Witness == Len(sessions) = 1 /\ C2Scenario(1) /\ Len(events) = 5

\* A step in which session i begins a cycle: its timer fires.
BeginsCycle(i) ==
    /\ i <= Len(sessions)
    /\ sessions[i].pc = "timer"
    /\ sessions'[i] # sessions[i]

\* A step in which a session is started; its first cycle runs in the step.
StartsSession == Len(sessions') = Len(sessions) + 1

Last(seq) == seq[Len(seq)]

\* The halting cycle: nothing is done to the page, active becomes false,
\* one `complete` event carrying clickCount is emitted, and the session is
\* left with no pending timer or sleep.
HaltedBy(i, before) ==
    /\ sessions'[i].pc = "done"
    /\ sessions'[i].clickCount = before
    /\ ~loadMoreActive'
    /\ events' = Append(events, Emit(i, "complete", before))
    /\ page' = page

C3_HaltStep ==
    /\ \A i \in 1..MaxSessions :
          (BeginsCycle(i)
           /\ (loadMoreStopped \/ sessions[i].clickCount >= sessions[i].maxClicks))
              => HaltedBy(i, sessions[i].clickCount)
    /\ (StartsSession /\ Last(sessions').pc # "errored"
        /\ 0 >= Last(sessions').maxClicks)
          => HaltedBy(Len(sessions'), 0)

C3_Bounded ==
    \A i \in 1..Len(sessions) :
        sessions[i].maxClicks >= 0 => sessions[i].clickCount <= sessions[i].maxClicks

\* C3: a cycle that begins with the stopped flag set or with
\* clickCount >= maxClicks performs no strategy, sets active to false, emits
\* exactly one `complete` carrying clickCount and schedules no further
\* cycle; and clickCount <= maxClicks in every state of a session started
\* with maxClicks >= 0.
C3_HaltCheck == [][C3_HaltStep /\ C3_Bounded']_vars

C3_Witness ==
    /\ Len(sessions) = 1
    /\ sessions[1].pc = "done"
    /\ sessions[1].maxClicks = MaxClicks
    /\ sessions[1].clickCount = sessions[1].maxClicks
    /\ Last(events) = Emit(1, "complete", sessions[1].maxClicks)

\* C4: a session in whose cycle an exception was raised and not recovered
\* locally is Errored: active is false, stopped is true and the session
\* has emitted one `error` event.
C4_ErroredOnException ==
    \A i \in 1..Len(sessions) :
        sessions[i].pc = "rejected" =>
            /\ ~loadMoreActive
            /\ loadMoreStopped
            /\ \E k \in 1..Len(events) :
                  events[k].sid = i /\ events[k].action = "error"

\* A visible link that the analyzer rates above 60.
VisibleLinkCandidate(pg) ==
    \E k \in 1..Len(Clickables(pg)) :
        LET e == Clickables(pg)[k] IN
        /\ e.tag = "a"
        /\ matchesLoadMore(e)
        /\ isElementVisible(e)
        /\ calculateElementConfidence(e) > 60

\* C9: with the effective method `link` and a visible link candidate of
\* confidence > 60 on the page, a session that is not stopped and has
\* clicks left does not end its loop without having clicked: its cycle
\* clicks the link and counts the click.
C9_LinkMethodClicks ==
    \A i \in 1..Len(sessions) :
        (/\ sessions[i].method = "link"
         /\ sessions[i].maxClicks > 0
         /\ sessions[i].pc = "done"
         /\ ~loadMoreStopped
         /\ VisibleLinkCandidate(page))
            => sessions[i].clickCount > 0

\* C10: after a session has emitted `pagination` it emits no further
\* clicked, scrolled, expanded or pagination event in this page context.
C10_PaginationEndsLoop ==
    \A j \in 1..Len(events) : \A k \in 1..Len(events) :
        (j < k /\ events[j].action = "pagination" /\ events[k].sid = events[j].sid)
            => events[k].action \notin StrategyActions \cup {"pagination"}

(***************************************************************************)
(* Properties of the cache, of the scan and of the recommended method.     *)
(***************************************************************************)
\* C5: get() returns the stored snapshot, the very object given to set(),
\* if and only if data is non-null, fewer than 30 000 ms have passed since
\* set(), the URL is the one recorded and the fingerprint is the one
\* recorded; otherwise it returns null; and it leaves the entry as it was.
C5_GetContract ==
    lastCall.op = "get" =>
        /\ lastCall.ret =
              IF /\ cache.data # NullData
                 /\ now - cache.timestamp < 30000
                 /\ cache.url = url
                 /\ cache.domHash = generateDomHash(page)
              THEN cache.data ELSE NullData
        /\ cache = lastCall.entry

C5_Witness ==
    /\ lastCall.op = "get"
    /\ lastCall.ret.ref = MaxRefs
    /\ now - cache.timestamp = 29999
    /\ cache.timestamp > 0

\* C6: after set(), whenever the pair of tracked counts (cache-key
\* elements, children of body) differs from the pair present at set(),
\* get() returns null.
C6_CountChangeInvalidates ==
    (lastCall.op = "get" /\ cache.data # NullData /\ TrackedCounts(page) # setAt)
        => lastCall.ret = NullData

\* C7: of two successive scanPageContent calls less than 30 s apart, with
\* no change of the document or of the URL between them, the second does
\* not run the analyzer and returns the cached snapshot.
C7_SecondScanCached ==
    \A j \in 1..(Len(scans) - 1) :
        (scans[j + 1].at - scans[j].at < 30000 /\ scans[j + 1].edits = scans[j].edits)
            => (~scans[j + 1].analysed /\ scans[j + 1].fromCache)

\* Whether hidden content was detected, whichever way it is recorded.
HiddenDetected(h) == IF h.isArray THEN Len(h.items) > 0 ELSE h.flag

PriorityChoice(patterns) ==
    IF \E k \in 1..Len(patterns.buttons) : patterns.buttons[k].confidence > 70
        THEN "button"
    ELSE IF \E k \in 1..Len(patterns.links) : patterns.links[k].confidence > 70
        THEN "link"
    ELSE IF patterns.infiniteScroll THEN "scroll"
    ELSE IF patterns.pagination THEN "pagination"
    ELSE IF patterns.lazyLoad THEN "scroll"
    ELSE IF HiddenDetected(patterns.hiddenContent) THEN "expand"
    ELSE "auto"

\* C8: determineRecommendedMethod returns the first applicable entry of:
\* button (a button above 70), link (a link above 70), scroll
\* (infiniteScroll), pagination, scroll (lazyLoad), expand (hidden content
\* detected), auto.
C8_MethodPriority ==
    lastCall.op = "method" => lastCall.ret = PriorityChoice(lastCall.patterns)

(***************************************************************************)
(* The expansion attempts of a session.                                    *)
(***************************************************************************)
AttemptActions == {"clicked", "scrolled", "expanded", "pagination"}

\* The number of strategy actions session sid has reported in evs.
RECURSIVE AttemptsOf(_, _)
AttemptsOf(evs, sid) ==
    IF evs = <<>> THEN 0
    ELSE (IF Head(evs).sid = sid /\ Head(evs).action \in AttemptActions THEN 1 ELSE 0)
         + AttemptsOf(Tail(evs), sid)

\* C11: the strategy actions of a session (clicks, scrolls, hidden-content
\* expansions and pagination clicks together) never number more than its
\* maxClicks.
C11_AttemptsBounded ==
    \A i \in 1..Len(sessions) :
        AttemptsOf(events, i) <= sessions[i].maxClicks

(***************************************************************************)
(* The injected page script (window.loadMoreExtension).  It runs in the    *)
(* page's own script world: its window.loadMoreStopped is the flag of that *)
(* world, and the specification below runs this script alone, so the       *)
(* variables loadMoreStopped, sessions and events hold its state there.    *)
(* A session of expandContent is [pc, i, clickCount, maxClicks, target,    *)
(* initial]: i is the loop counter and initial the document height that    *)
(* triggerInfiniteScroll read before it scrolled.                          *)
(***************************************************************************)
MaxRuns == 2

\* LOAD_MORE_PATTERNS.texts, those that a text of the modelled page can
\* contain.
InjectedTexts == {<<"load", " ", "more">>, <<"next", " ", "page">>, <<"expand">>}

\* The text-based test of findLoadMoreElements: `${text} ${className}`.
InjectedTextMatches(e) ==
    \E pattern \in InjectedTexts : Includes(e.text \o <<" ">> \o e.className, pattern)

\* The selector-based test: [class*="load-more"] and .load-more.
InjectedSelectorMatches(e) == Includes(e.className, LoadMoreClass)

\* findLoadMoreElements(): the text-based matches in document order, then
\* the selector-based matches not found already, filtered to the visible.
findLoadMoreElements(pg) ==
    LET textBased == SelectSeq(Clickables(pg), InjectedTextMatches)
        SelectorOnly(e) == InjectedSelectorMatches(e) /\ ~InjectedTextMatches(e)
        selectorBased == SelectSeq(Clickables(pg), SelectorOnly)
        Visible(e) == e.visible
    IN SelectSeq(textBased \o selectorBased, Visible)

\* What the environment does in a step of the injected script: whether the
\* page loads content, whether the clicked element disappears, whether the
\* click navigates away, and whether the document is taller than one and a
\* half viewports (hasInfiniteScroll).
InjectedOutcomes == [grow : BOOLEAN, gone : BOOLEAN, unload : BOOLEAN, tall : BOOLEAN]

hasInfiniteScroll(o) == o.tall

InjectedRunning(se) == se.pc \in {"preClick", "scrollWait", "delay"}

InjectedRunningSessions == {i \in 1..Len(sessions) : InjectedRunning(sessions[i])}

\* The end of expandContent: the completion message.
InjectedComplete(sid, se, pg, c) ==
    StepResult([se EXCEPT !.pc = "done"], pg,
               <<Emit(sid, "complete", se.clickCount)>>, FALSE, TRUE, c)

\* Whether the for loop of expandContent leaves before an iteration: the
\* counter has reached maxClicks, or window.loadMoreStopped is set.
LoopLeaves(stopped, i, maxClicks) == i >= maxClicks \/ stopped

\* One iteration of the for loop of expandContent, from its test to its
\* first await or to the end of the function.
IterationStart(sid, se, stopped, pg, c, o) ==
    IF LoopLeaves(stopped, se.i, se.maxClicks)
        THEN InjectedComplete(sid, se, pg, c)
    ELSE LET loadMoreElements == findLoadMoreElements(pg)
         IN IF loadMoreElements = <<>>
               THEN IF hasInfiniteScroll(o)
                       THEN StepResult([se EXCEPT !.pc = "scrollWait",
                                                  !.initial = pg.content],
                                       [pg EXCEPT !.scrollable = FALSE],
                                       <<>>, FALSE, TRUE, c)
                       ELSE InjectedComplete(sid, se, pg, c)
               ELSE StepResult([se EXCEPT !.pc = "preClick",
                                          !.target = Head(loadMoreElements).id],
                               pg, <<>>, FALSE, TRUE, c)

\* clickElement from the end of its sleep(500), and the loop up to
\* sleep(delay).  A click that throws is caught in clickElement, which then
\* returns false.
AfterInjectedClickSleep(sid, se, pg, c, f, o) ==
    IF f = "click"
        THEN StepResult([se EXCEPT !.pc = "delay", !.target = "none"], pg, <<>>,
                        FALSE, TRUE, c)
    ELSE StepResult([se EXCEPT !.pc = "delay", !.target = "none",
                               !.clickCount = se.clickCount + 1],
                    ClickEffect(pg, se.target, o),
                    <<Emit(sid, "clicked", se.clickCount + 1)>>, FALSE,
                    ~ClickUnloads(se.target, o), c)

\* triggerInfiniteScroll from the end of its sleep(2000), and the loop up
\* to sleep(delay) or to the end of the function.
AfterScrollWait(sid, se, pg, c, o) ==
    LET grown == [pg EXCEPT !.content = Grown(pg, o),
                            !.scrollable = Grown(pg, o) > pg.content]
    IN IF grown.content > se.initial
          THEN StepResult([se EXCEPT !.pc = "delay"], grown,
                          <<Emit(sid, "scrolled", se.clickCount)>>, FALSE, TRUE, c)
          ELSE InjectedComplete(sid, se, grown, c)

\* expandContent(options) up to its first await.
ExpandContentCall(maxClicks, o) ==
    /\ alive
    /\ Len(sessions) < MaxRuns
    /\ Len(events) + 1 < MaxEvents
    /\ LET sid == Len(sessions) + 1
           se == [pc |-> "delay", i |-> 0, clickCount |-> 0,
                  maxClicks |-> maxClicks, target |-> "none", initial |-> 0]
           r == IterationStart(sid, se, loadMoreStopped, page, cache, o)
       IN Apply(sid, [r EXCEPT !.emitted = <<Emit(sid, "started", 0)>> \o r.emitted])
    /\ UNCHANGED <<loadMoreActive, loadMoreStopped, url, now, lastCall, setAt, scans,
                   rateLimiter, throttled, autoDetection>>

\* A later step of a session of expandContent.
InjectedStep(sid, r) ==
    /\ Apply(sid, r)
    /\ UNCHANGED <<loadMoreActive, loadMoreStopped, url, now, lastCall, setAt, scans,
                   rateLimiter, throttled, autoDetection>>

\* sleep(500) in clickElement ends.
ClickSleepEnds(sid, f, o) ==
    /\ alive
    /\ sid \in 1..Len(sessions)
    /\ sessions[sid].pc = "preClick"
    /\ Len(events) < MaxEvents
    /\ f \in {"none", "click"}
    /\ InjectedStep(sid, AfterInjectedClickSleep(sid, sessions[sid], page, cache, f, o))

\* sleep(2000) in triggerInfiniteScroll ends.
ScrollWaitEnds(sid, o) ==
    /\ alive
    /\ sid \in 1..Len(sessions)
    /\ sessions[sid].pc = "scrollWait"
    /\ Len(events) < MaxEvents
    /\ InjectedStep(sid, AfterScrollWait(sid, sessions[sid], page, cache, o))

\* sleep(delay) at the end of an iteration ends: i++ and the next test.
IterationDelayEnds(sid, o) ==
    /\ alive
    /\ sid \in 1..Len(sessions)
    /\ sessions[sid].pc = "delay"
    /\ Len(events) < MaxEvents
    /\ InjectedStep(sid, IterationStart(sid, [sessions[sid] EXCEPT !.i = @ + 1],
                                        loadMoreStopped, page, cache, o))

\* stopExpansion().
StopExpansionCall ==
    /\ alive
    /\ Len(events) < MaxEvents
    /\ loadMoreStopped' = TRUE
    /\ events' = Append(events, [sid |-> 0, action |-> "stopped", count |-> 0,
                                 live |-> InjectedRunningSessions])
    /\ UNCHANGED <<page, url, now, cache, loadMoreActive, sessions, alive, lastCall,
                   setAt, scans, rateLimiter, throttled, autoDetection>>

\* The script is injected again: its last statement resets the flag.
InjectScript ==
    /\ alive
    /\ loadMoreStopped
    /\ loadMoreStopped' = FALSE
    /\ UNCHANGED <<page, url, now, cache, loadMoreActive, sessions, events, alive,
                   lastCall, setAt, scans, rateLimiter, throttled, autoDetection>>

InjectedPages ==
    {pg \in InitPages : /\ pg.lnk = "absent" /\ ~pg.next /\ pg.hidden = 0
                        /\ pg.content = 0 /\ pg.scrollable}

InitInjected == \E pg \in InjectedPages : Loaded(pg)

InjectedFaults == {"none", "click"}

NextInjected ==
    \/ \E maxClicks \in ClickLimits, o \in InjectedOutcomes : ExpandContentCall(maxClicks, o)
    \/ \E sid \in 1..MaxRuns, f \in InjectedFaults, o \in InjectedOutcomes :
          ClickSleepEnds(sid, f, o)
    \/ \E sid \in 1..MaxRuns, o \in InjectedOutcomes : ScrollWaitEnds(sid, o)
    \/ \E sid \in 1..MaxRuns, o \in InjectedOutcomes : IterationDelayEnds(sid, o)
    \/ StopExpansionCall
    \/ InjectScript

SpecInjected == InitInjected /\ [][NextInjected]_vars

\* A step in which a new session is started.
SessionStarts == Len(sessions') = Len(sessions) + 1

\* An earlier session exists and every earlier session has ended.
EarlierEnded ==
    /\ Len(sessions) >= 1
    /\ \A i \in 1..Len(sessions) : sessions[i].pc \in {"done", "errored", "rejected"}

\* C12: a start issued after an earlier session was stopped, completed or
\* errored begins with the stop flag cleared and clickCount = 0, and its
\* first cycle is executed: with a positive maxClicks and a load-more
\* element to click, the new session goes on to click it.
C12_FreshStart ==
    [][(SessionStarts /\ EarlierEnded /\ alive)
         => LET se == sessions'[Len(sessions')]
            IN /\ ~loadMoreStopped'
               /\ se.clickCount = 0
               /\ (se.maxClicks > 0 /\ findLoadMoreElements(page) # <<>>
                     => se.pc = "preClick")]_vars

\* A step in which the click of session i throws.
ClickThrows(i) ==
    /\ i \in 1..Len(sessions)
    /\ sessions[i].pc = "preClick"
    /\ ~sessions[i].clickFailed
    /\ sessions'[i].clickFailed

\* Whether a later strategy that method allows can act on page pg.
LaterStrategyAvailable(method, pg) ==
    \/ ScrollGate(method) /\ pg.scrollable
    \/ ExpandGate(method) /\ expandHiddenContent(pg) > 0
    \/ PaginationGate(method) /\ findNextPageLink(pg).id # "none"

\* C13: a click that throws is recovered in its cycle: clickCount stays,
\* the page saw no click, no `clicked` and no `error` event is emitted, the
\* session is not aborted, and the cycle ends as a cycle without a click
\* does: with the action of a later strategy that the effective method
\* allows, or with `complete` when none of them can act.
C13_ClickThrowRecovered ==
    [][\A i \in 1..MaxSessions :
         ClickThrows(i) =>
            LET se == sessions[i]
                emitted == SubSeq(events', Len(events) + 1, Len(events'))
            IN /\ sessions'[i].clickCount = se.clickCount
               /\ page'.clicks = page.clicks
               /\ Len(emitted) = 1
               /\ emitted[1].sid = i
               /\ emitted[1].count = se.clickCount
               /\ IF LaterStrategyAvailable(se.method, page)
                     THEN /\ emitted[1].action \in {"scrolled", "expanded", "pagination"}
                          /\ sessions'[i].pc = "postAction"
                     ELSE /\ emitted[1].action = "complete"
                          /\ sessions'[i].pc = "done"
                          /\ ~loadMoreActive'
               /\ (emitted[1].action = "scrolled" => ScrollGate(se.method))
               /\ (emitted[1].action = "expanded" => ExpandGate(se.method))
               /\ (emitted[1].action = "pagination" => PaginationGate(se.method))]_vars

\* The click of a session has thrown and the session ended its cycle.
C13_Witness ==
    \E i \in 1..Len(sessions) :
        /\ sessions[i].clickFailed
        /\ sessions[i].clickCount = 0
        /\ sessions[i].pc = "done"
        /\ \E k \in 1..Len(events) : events[k].sid = i /\ events[k].action = "complete"

\* C14: an explicitly requested method never yields an effective method
\* outside the allow-list: a request outside the list is not used as it is.
C14_MethodAllowListed ==
    \A i \in 1..Len(sessions) :
        sessions[i].requested # "auto" => sessions[i].method \in Methods

(***************************************************************************)
(* The message listeners.  A JavaScript value is a record tagged with its  *)
(* typeof: undefined, null, a string, a number, or an object with the      *)
(* properties the listeners read; a property that is not there is          *)
(* undefined.                                                              *)
(***************************************************************************)
JsUndefined == [t |-> "undefined"]
JsNull == [t |-> "null"]
JsString(s) == [t |-> "string", v |-> s]
JsNumber(n) == [t |-> "number", v |-> n]

\* {maxClicks, delay, method}
JsOptions(maxClicks, delay, method) ==
    [t |-> "object", maxClicks |-> maxClicks, delay |-> delay, method |-> method]

\* {type, options, tabId}
JsMessage(type, options, tabId) ==
    [t |-> "object", type |-> type, options |-> options, tabId |-> tabId]

\* !value
Falsy(value) ==
    \/ value.t \in {"undefined", "null"}
    \/ value.t = "string" /\ value.v = ""
    \/ value.t = "number" /\ value.v = 0

\* message.type, for any message that is not null or undefined.
TypeOf(message) == IF message.t = "object" THEN message.type ELSE JsUndefined

\* message.options || {}
OptionsOrEmpty(message) ==
    IF Falsy(message.options) THEN JsOptions(JsUndefined, JsUndefined, JsUndefined)
    ELSE message.options

\* A destructuring default: it replaces undefined and nothing else.
OrDefault(value, default) == IF value.t = "undefined" THEN default ELSE value.v

\* What the listener has done: the message and the response it sent.
Reply(message, response) ==
    [op |-> "message", message |-> message, response |-> response]

\* The listener of src/content.js.
OnMessage(message, f, o) ==
    /\ alive
    /\ IF Falsy(message) \/ TypeOf(message).t # "string"
         THEN /\ lastCall' = Reply(message, [error |-> "Invalid message format"])
              /\ UNCHANGED <<page, url, now, cache, loadMoreActive, loadMoreStopped,
                             sessions, events, alive, setAt, scans, rateLimiter,
                             throttled, autoDetection>>
       ELSE IF message.type.v = "SCAN_PAGE_CONTENT"
         THEN LET r == scanPageContent(cache, page, url, now) IN
              /\ cache' = r.cache
              /\ lastCall' = Reply(message, [success |-> TRUE, data |-> r.result])
              /\ UNCHANGED <<page, url, now, loadMoreActive, loadMoreStopped,
                             sessions, events, alive, setAt, scans, rateLimiter,
                             throttled, autoDetection>>
       ELSE IF message.type.v = "START_EXPANSION"
         THEN LET options == OptionsOrEmpty(message) IN
              /\ Len(sessions) < MaxSessions
              /\ Len(events) < MaxEvents
              /\ StartExpansion(OrDefault(options.maxClicks, DefaultMaxClicks),
                                OrDefault(options.delay, DefaultDelay),
                                OrDefault(options.method, "auto"), f, o)
              /\ lastCall' = Reply(message, [success |-> TRUE])
       ELSE IF message.type.v = "STOP_EXPANSION"
         THEN /\ Len(events) < MaxEvents
              /\ StopExpansion
              /\ lastCall' = Reply(message, [success |-> TRUE])
              /\ UNCHANGED rateLimiter
       ELSE /\ lastCall' = Reply(message, [error |-> "Unknown message type",
                                           type |-> message.type.v])
            /\ UNCHANGED <<page, url, now, cache, loadMoreActive, loadMoreStopped,
                           sessions, events, alive, setAt, scans, rateLimiter,
                           throttled, autoDetection>>

\* The values of the options that START_EXPANSION messages carry.
MaxClicksOptions == {JsUndefined, JsNumber(0), JsNumber(MaxClicks), JsNumber(25)}
DelayOptions == {JsUndefined, JsNumber(100)}
MethodOptions == {JsUndefined, JsString("button")}

StartMessages ==
    {JsMessage(JsString("START_EXPANSION"), options, JsUndefined) :
        options \in {JsUndefined} \cup
                    {JsOptions(m, d, x) : m \in MaxClicksOptions, d \in DelayOptions,
                                          x \in MethodOptions}}

\* Messages that are not of the protocol: not objects, without a string
\* type, or of a type no listener knows.
MalformedMessages ==
    {JsNull, JsString("STOP_EXPANSION"),
     JsMessage(JsUndefined, JsUndefined, JsUndefined),
     JsMessage(JsNumber(1), JsUndefined, JsUndefined)}

UnknownTypeMessages ==
    {JsMessage(JsString(type), JsUndefined, JsUndefined) : type \in {"PING", "SCAN_PAGE"}}

ScanMessages == {JsMessage(JsString("SCAN_PAGE_CONTENT"), JsUndefined, JsUndefined)}

StopMessages ==
    {JsMessage(JsString("STOP_EXPANSION"), JsUndefined, tabId) :
        tabId \in {JsUndefined, JsNumber(0 - 1)}}

Messages ==
    StartMessages \cup MalformedMessages \cup UnknownTypeMessages \cup ScanMessages
    \cup StopMessages

MessagePages ==
    {pg \in InitPages : /\ pg.btn = "visible" /\ pg.btnClass /\ pg.lnk = "absent"
                        /\ ~pg.next /\ pg.hidden = 0 /\ pg.content = 0
                        /\ ~pg.scrollable}

InitMessages == \E pg \in MessagePages : Loaded(pg)

\* The environment of a message that starts no cycle.
NoOutcome == [grow |-> FALSE, gone |-> FALSE, unload |-> FALSE]

NextMessages ==
    \/ \E message \in StartMessages, f \in Faults, o \in Outcomes :
          OnMessage(message, f, o)
    \/ \E message \in Messages \ StartMessages : OnMessage(message, "none", NoOutcome)
    \/ \E sid \in 1..MaxSessions, f \in Faults, o \in Outcomes : TimerFires(sid, f, o)
    \/ \E sid \in 1..MaxSessions, f \in Faults, o \in Outcomes :
          PreClickSleepEnds(sid, f, o)
    \/ \E sid \in 1..MaxSessions, f \in Faults : DelayEnds(sid, f)

SpecMessages == InitMessages /\ [][NextMessages]_vars

\* Whether the listener's last message is a START_EXPANSION request.
StartRequested ==
    /\ lastCall.op = "message"
    /\ ~Falsy(lastCall.message)
    /\ TypeOf(lastCall.message) = JsString("START_EXPANSION")

\* C15: a START_EXPANSION request is answered {success: true}, whatever
\* its maxClicks and delay, and the session it starts runs with a maxClicks
\* within [1, 20] and a delay within [500, 10000] ms.
C15_OptionsClamped ==
    StartRequested =>
        /\ lastCall.response = [success |-> TRUE]
        /\ sessions # <<>>
        /\ sessions[Len(sessions)].maxClicks \in 1..20
        /\ sessions[Len(sessions)].delay \in 500..10000

(***************************************************************************)
(* The listener of the built content script (src/dist/content.js) with its *)
(* SecurityUtils.                                                          *)
(***************************************************************************)
validMessageTypes == {"SCAN_PAGE", "EXPAND_CONTENT", "STOP_EXPANSION"}

maxRequestsPerMinute == 30

RateWindow == 60000

\* SecurityUtils.validateMessage(message).  The numbers of the model are
\* integers, so Number.isInteger holds of each.
validateMessage(message) ==
    IF Falsy(message) \/ message.t # "object"
        THEN [valid |-> FALSE, error |-> "Invalid message format"]
    ELSE IF Falsy(message.type) \/ message.type.t # "string"
        THEN [valid |-> FALSE, error |-> "Missing or invalid message type"]
    ELSE IF message.type.v \notin validMessageTypes
        THEN [valid |-> FALSE, error |-> "Unknown message type"]
    ELSE IF /\ message.tabId.t # "undefined"
            /\ (message.tabId.t # "number" \/ message.tabId.v < 0)
        THEN [valid |-> FALSE, error |-> "Invalid tab ID"]
    ELSE [valid |-> TRUE, error |-> ""]

\* SecurityUtils.checkRateLimit(identifier) at time t, on the request times
\* of the identifier: whether the request is allowed and the times kept.
\* checkRateLimit with > for >= in the comparison with the limit.
checkRateLimitOneMore(requests, t) ==
    LET Recent(time) == time > t - RateWindow
        recentRequests == SelectSeq(requests, Recent)
    IN IF Len(recentRequests) > maxRequestsPerMinute
          THEN [allowed |-> FALSE, requests |-> recentRequests]
          ELSE [allowed |-> TRUE, requests |-> Append(recentRequests, t)]

checkRateLimit(requests, t) ==
    LET Recent(time) == time > t - RateWindow
        recentRequests == SelectSeq(requests, Recent)
    IN IF Len(recentRequests) >= maxRequestsPerMinute
          THEN [allowed |-> FALSE, requests |-> recentRequests]
          ELSE [allowed |-> TRUE, requests |-> Append(recentRequests, t)]

\* The listener of src/dist/content.js.  Its cases 'SCAN_PAGE_CONTENT' and
\* 'START_EXPANSION' are behind validateMessage, which admits neither
\* type: of the types it admits, the switch knows 'STOP_EXPANSION' only.
OnMessageDist(message) ==
    /\ alive
    /\ LET validation == validateMessage(message)
           rateCheck == checkRateLimit(rateLimiter, now)
       IN IF ~validation.valid
            THEN /\ lastCall' = Reply(message, [error |-> validation.error])
                 /\ UNCHANGED <<page, url, now, cache, loadMoreActive, loadMoreStopped,
                                sessions, events, alive, setAt, scans, rateLimiter,
                                throttled, autoDetection>>
          ELSE IF ~rateCheck.allowed
            THEN /\ lastCall' = Reply(message, [error |-> "Rate limit exceeded"])
                 /\ rateLimiter' = rateCheck.requests
                 /\ UNCHANGED <<page, url, now, cache, loadMoreActive, loadMoreStopped,
                                sessions, events, alive, setAt, scans, throttled,
                                autoDetection>>
          ELSE IF message.type.v = "STOP_EXPANSION"
            THEN /\ Len(events) < MaxEvents
                 /\ StopExpansion
                 /\ lastCall' = Reply(message, [success |-> TRUE])
                 /\ rateLimiter' = rateCheck.requests
          ELSE /\ lastCall' = Reply(message, [error |-> "Unknown message type"])
               /\ rateLimiter' = rateCheck.requests
               /\ UNCHANGED <<page, url, now, cache, loadMoreActive, loadMoreStopped,
                              sessions, events, alive, setAt, scans, throttled,
                              autoDetection>>

\* The messages sent to the built script: those of the protocol, one
\* START_EXPANSION among them, and those that are not.
DistMessages ==
    (Messages \ StartMessages)
    \cup {JsMessage(JsString("START_EXPANSION"),
                    JsOptions(JsNumber(MaxClicks), JsUndefined, JsUndefined),
                    JsUndefined)}

InitDist == \E pg \in MessagePages : Loaded(pg)

NextDist ==
    \/ \E message \in DistMessages : OnMessageDist(message)
    \/ Tick(RateWindow \div 2)

SpecDist == InitDist /\ [][NextDist]_vars

\* Whether the listener's last message is a well-formed SCAN_PAGE_CONTENT.
ScanRequested == lastCall.op = "message" /\ lastCall.message \in ScanMessages

\* C16: a well-formed {type: 'SCAN_PAGE_CONTENT'} is answered with
\* {success: true, data} or, when scanning throws, with {error, details};
\* never with an error of another shape (unknown type, validation).
C16_ScanAnswered ==
    ScanRequested =>
        \/ /\ DOMAIN lastCall.response = {"success", "data"}
           /\ lastCall.response.success
           /\ "detectionSummary" \in DOMAIN lastCall.response.data
        \/ DOMAIN lastCall.response = {"error", "details"}

\* A step in which the listener handles a message that is not of the
\* protocol.
ProtocolErrorStep ==
    /\ lastCall' # lastCall
    /\ lastCall'.op = "message"
    /\ lastCall'.message \in MalformedMessages \cup UnknownTypeMessages

\* C17: a malformed message is answered {error: 'Invalid message format'}
\* and a message of an unrecognised type {error: 'Unknown message type',
\* type}; handling either leaves the session flags, the sessions and the
\* analysis cache as they were and emits no progress event.
C17_ProtocolErrors ==
    [][ProtocolErrorStep =>
         /\ (lastCall'.message \in MalformedMessages
               => lastCall'.response = [error |-> "Invalid message format"])
         /\ (lastCall'.message \in UnknownTypeMessages
               => lastCall'.response = [error |-> "Unknown message type",
                                        type |-> lastCall'.message.type.v])
         /\ UNCHANGED <<loadMoreActive, loadMoreStopped, sessions, cache, events>>]_vars

(***************************************************************************)
(* detection.js: throttle(func, delay).  One throttled function is created *)
(* and called; func records its invocations.  Date.now() is far above      *)
(* delay when the script runs, so the clock starts above it.  A timeout    *)
(* never fires before it is due and may fire late.                         *)
(***************************************************************************)
ThrottleDelay == 3
MaxElapsed == 8
MaxCalls == 3
MaxArgs == 2

ThrottleStart == ThrottleDelay + 1

\* The test of the throttled function: mutated, it opens one ms late.
ThrottleOpenLate(currentTime, lastExecTime, delay) ==
    currentTime - lastExecTime > delay + 1

ThrottleOpen(currentTime, lastExecTime, delay) ==
    currentTime - lastExecTime > delay

\* The delay given to setTimeout: mutated, none.
TimeoutDelayNone(currentTime, lastExecTime, delay) == 0

TimeoutDelay(currentTime, lastExecTime, delay) ==
    delay - (currentTime - lastExecTime)

\* The time of the latest invocation of func, Undefined if there is none.
LastInvocation(th) ==
    IF th.invoked = <<>> THEN Undefined ELSE th.invoked[Len(th.invoked)].at

\* The throttled function called with args at time t.
ThrottledCall(th, args, t) ==
    LET called == [th EXCEPT !.calls = Append(@, [args |-> args, at |-> t,
                                                  prev |-> LastInvocation(th)])]
    IN IF ThrottleOpen(t, th.lastExecTime, ThrottleDelay)
          THEN [called EXCEPT !.invoked = Append(@, [args |-> args, at |-> t]),
                              !.lastExecTime = t]
          ELSE [called EXCEPT !.timeoutId =
                   [set |-> TRUE, args |-> args,
                    due |-> t + TimeoutDelay(t, th.lastExecTime, ThrottleDelay)]]

\* The callback of the timeout, run at time t.
TimeoutCallback(th, t) ==
    [th EXCEPT !.invoked = Append(@, [args |-> th.timeoutId.args, at |-> t]),
               !.lastExecTime = t,
               !.timeoutId = NoTimeout]

CallThrottled(args) ==
    /\ Len(throttled.calls) < MaxCalls
    /\ throttled' = ThrottledCall(throttled, args, now)
    /\ UNCHANGED <<page, url, now, cache, loadMoreActive, loadMoreStopped, sessions,
                   events, alive, lastCall, setAt, scans, rateLimiter,
                   autoDetection>>

TimeoutFires ==
    /\ throttled.timeoutId.set
    /\ now >= throttled.timeoutId.due
    /\ throttled' = TimeoutCallback(throttled, now)
    /\ UNCHANGED <<page, url, now, cache, loadMoreActive, loadMoreStopped, sessions,
                   events, alive, lastCall, setAt, scans, rateLimiter,
                   autoDetection>>

\* A millisecond passes.
Advance ==
    /\ now < ThrottleStart + MaxElapsed
    /\ now' = now + 1
    /\ UNCHANGED <<page, url, cache, loadMoreActive, loadMoreStopped, sessions,
                   events, alive, lastCall, setAt, scans, rateLimiter, throttled,
                   autoDetection>>

InitThrottle ==
    /\ page = PlainPage(0, 1)
    /\ url = "u1"
    /\ now = ThrottleStart
    /\ cache = EmptyCache
    /\ loadMoreActive = FALSE
    /\ loadMoreStopped = FALSE
    /\ sessions = <<>>
    /\ events = <<>>
    /\ alive = TRUE
    /\ lastCall = NoCall
    /\ setAt = <<0, 0>>
    /\ scans = <<>>
    /\ rateLimiter = <<>>
    /\ throttled = NewThrottle
    /\ autoDetection = NoDetection

NextThrottle ==
    \/ \E args \in 1..MaxArgs : CallThrottled(args)
    \/ TimeoutFires
    \/ Advance

SpecThrottle == InitThrottle /\ [][NextThrottle]_vars

\* The calls made so far are a burst: two or more, each less than delay ms
\* after the first.  (A call exactly delay ms after the first can come
\* after the callback of the timeout, and is then throttled anew.)
Burst ==
    /\ Len(throttled.calls) >= 2
    /\ \A i \in 1..Len(throttled.calls) :
          throttled.calls[i].at < throttled.calls[1].at + ThrottleDelay

\* C18: of a burst of calls, the first invokes func at once with its own
\* arguments and no other call does; one timeout is pending, and when it
\* has fired, not before the delay has passed since the first call, func
\* has been invoked exactly twice, the second time with the arguments of
\* the latest call.
C18_BurstInvokesTwice ==
    Burst =>
        LET calls == throttled.calls
            first == [args |-> calls[1].args, at |-> calls[1].at]
        IN IF throttled.timeoutId.set
              THEN /\ throttled.invoked = <<first>>
                   /\ throttled.timeoutId.args = calls[Len(calls)].args
                   /\ throttled.timeoutId.due = calls[1].at + ThrottleDelay
              ELSE /\ Len(throttled.invoked) = 2
                   /\ throttled.invoked[1] = first
                   /\ throttled.invoked[2].args = calls[Len(calls)].args
                   /\ throttled.invoked[2].at >= calls[1].at + ThrottleDelay

\* A burst of three calls, the last with other arguments than the first,
\* whose trailing invocation has happened.
C18_Witness ==
    /\ Burst
    /\ Len(throttled.calls) = 3
    /\ throttled.calls[3].args # throttled.calls[1].args
    /\ ~throttled.timeoutId.set
    /\ Len(throttled.invoked) = 2

\* The calls made so far are spaced: each more than delay ms after the
\* invocation of func before it.
Spaced ==
    \A i \in 1..Len(throttled.calls) :
        \/ throttled.calls[i].prev = Undefined
        \/ throttled.calls[i].at > throttled.calls[i].prev + ThrottleDelay

\* C19: spaced calls each invoke func at once with their own arguments:
\* the invocations are the calls, in order, and no timeout is pending.
C19_SpacedInvokeEach ==
    Spaced =>
        /\ ~throttled.timeoutId.set
        /\ Len(throttled.invoked) = Len(throttled.calls)
        /\ \A i \in 1..Len(throttled.calls) :
              /\ throttled.invoked[i].args = throttled.calls[i].args
              /\ throttled.invoked[i].at = throttled.calls[i].at

\* Three spaced calls have been made.
C19_Witness ==
    /\ Spaced
    /\ Len(throttled.calls) = 3
    /\ throttled.calls[2].args # throttled.calls[1].args
    /\ Len(throttled.invoked) = 3

(***************************************************************************)
(* detection.js: queryElements(selector, context, single) on the clickable *)
(* elements of the document.  null is NoElement.                           *)
(***************************************************************************)
\* A selector that the DOM rejects, such as ":::".
InvalidSelector == [kind |-> "invalid", tag |-> "", key |-> <<>>, nth |-> 0]

\* A valid selector that no element of a modelled page matches.
UnmatchedSelector == [kind |-> "id", tag |-> "", key |-> <<"missing">>, nth |-> 0]

\* context.querySelector(selector) or Array.from(context.querySelectorAll(
\* selector)): both throw a SyntaxError for a selector the DOM rejects.
DomQuery(elems, selector, single) ==
    LET Matches(e) == SelectorMatches(selector, e)
    IN IF selector.kind = "invalid" THEN [threw |-> TRUE, value |-> <<>>]
       ELSE [threw |-> FALSE,
             value |-> IF single THEN FirstMatch(elems, selector)
                       ELSE SelectSeq(elems, Matches)]

\* queryElements without its try block.
queryElementsUncaught(elems, selector, single) == DomQuery(elems, selector, single)

queryElements(elems, selector, single) ==
    LET found == DomQuery(elems, selector, single)
    IN IF found.threw
          THEN [threw |-> FALSE, value |-> IF single THEN NoElement ELSE <<>>]
          ELSE found

\* The selector "a": it can match several elements.
LinkSelector == [kind |-> "tag", tag |-> "a", key |-> <<>>, nth |-> 0]

\* The selectors queried: those generated for the page's elements, "a",
\* one that matches nothing and one that is invalid.
QuerySelectors(pg) ==
    {generateElementSelector(Clickables(pg)[i]) : i \in 1..Len(Clickables(pg))}
    \cup {LinkSelector, UnmatchedSelector, InvalidSelector}

QueryElementsCall(selector, single) ==
    /\ lastCall' = [op |-> "query", selector |-> selector, single |-> single,
                    result |-> queryElements(Clickables(page), selector, single)]
    /\ UNCHANGED <<page, url, now, cache, loadMoreActive, loadMoreStopped, sessions,
                   events, alive, setAt, scans, rateLimiter, throttled,
                   autoDetection>>

InitQuery == \E pg \in InitPages : Loaded(pg)

NextQuery ==
    \E selector \in QuerySelectors(page), single \in BOOLEAN :
        QueryElementsCall(selector, single)

SpecQuery == InitQuery /\ [][NextQuery]_vars

\* The positions of the elements of the page that the selector matches.
MatchPositions(selector) ==
    {i \in 1..Len(Clickables(page)) : SelectorMatches(selector, Clickables(page)[i])}

\* C20: queryElements does not throw.  For an invalid selector it returns
\* an empty array, or null in single mode; for a valid selector it returns
\* the matching elements in document order, or in single mode the first
\* of them, or null when there is none.
C20_QueryNeverThrows ==
    lastCall.op = "query" =>
        LET selector == lastCall.selector
            value == lastCall.result.value
            positions == MatchPositions(selector)
        IN /\ ~lastCall.result.threw
           /\ IF selector = InvalidSelector
                 THEN value = IF lastCall.single THEN NoElement ELSE <<>>
              ELSE IF lastCall.single
                 THEN IF positions = {} THEN value = NoElement
                      ELSE \E i \in positions :
                              /\ value = Clickables(page)[i]
                              /\ \A j \in positions : i <= j
              ELSE /\ Len(value) = Cardinality(positions)
                   /\ \A k \in 1..Len(value) :
                         \E i \in positions : value[k] = Clickables(page)[i]
                   /\ \A k, l \in 1..Len(value) :
                         k < l => \E i, j \in positions :
                                     /\ i < j
                                     /\ value[k] = Clickables(page)[i]
                                     /\ value[l] = Clickables(page)[j]

\* The invalid selector has been queried in array mode on a page with two
\* links, and the empty array came back.
C20_Witness ==
    /\ lastCall.op = "query"
    /\ lastCall.selector = InvalidSelector
    /\ ~lastCall.single
    /\ Cardinality(MatchPositions(LinkSelector)) = 2
    /\ lastCall.result = [threw |-> FALSE, value |-> <<>>]

(***************************************************************************)
(* modules/detection.js analyzePageContent and dist/content.js             *)
(* scanPageContent on documents with several candidates, with disabled     *)
(* elements and with an exception raised at any statement of the scan.     *)
(* In this specification `page` holds the document as the analyzers query  *)
(* it.                                                                     *)
(***************************************************************************)
MaxElems == 3

ElementIds == <<"e1", "e2", "e3", "e4", "e5", "e6">>

\* An element of a fixture, with text, aria-label and class as written in
\* the markup.
Element(tag, text, className, ariaLabel, visible, disabled, ariaDisabled) ==
    [id |-> "e1", tag |-> tag, text |-> text, className |-> className,
     ariaLabel |-> ariaLabel, elemId |-> <<>>, nth |-> 1, visible |-> visible,
     disabled |-> disabled, ariaDisabled |-> ariaDisabled]

MarkupTexts == {<<"Load", " ", "More">>, <<"More">>, <<"Show">>, <<>>}
MarkupClasses == {<<"load", "-", "more">>, <<"more">>, <<"expand">>, <<>>}
MarkupLabels == {<<"Load", " ", "More">>, <<>>}

\* Every combination of the scoring inputs of one element.
ScoredElements ==
    {Element(tag, text, className, ariaLabel, visible, disabled, ariaDisabled) :
        tag \in {"button", "a"}, text \in MarkupTexts,
        className \in MarkupClasses, ariaLabel \in MarkupLabels,
        visible \in BOOLEAN, disabled \in BOOLEAN, ariaDisabled \in BOOLEAN}

\* Buttons and links of different confidences, for the documents with several
\* elements.
RankedElements ==
    {Element("button", <<"Load", " ", "More">>, <<"load", "-", "more">>, <<>>,
             TRUE, FALSE, FALSE),
     Element("button", <<"Load", " ", "More">>, <<>>, <<>>, TRUE, FALSE, FALSE),
     Element("button", <<"Load", " ", "More">>, <<>>, <<>>, TRUE, TRUE, FALSE),
     Element("a", <<"Show", " ", "More">>, <<"expand">>, <<>>, FALSE, FALSE, FALSE),
     Element("a", <<"Load", " ", "More">>, <<"load", "-", "more">>, <<>>,
             TRUE, FALSE, FALSE),
     Element("div", <<"Load", " ", "More">>, <<"load", "-", "more">>, <<>>,
             TRUE, FALSE, FALSE)}

\* Elements that are neither <button> nor <a> and that CLICKABLE_ELEMENTS
\* selects by their class (.load-more, .expand), and the link of the
\* analyzer's test, <a class="show-more" href="#">More</a>.
ClassedElements ==
    {Element("div", text, className, <<>>, visible, FALSE, FALSE) :
        text \in MarkupTexts,
        className \in {<<"load", "-", "more">>, <<"expand">>},
        visible \in BOOLEAN}
    \cup {Element("a", <<"More">>, <<"show", "-", "more">>, <<>>, TRUE, FALSE, FALSE)}

\* The elements numbered in document order.
Placed(elems) ==
    [i \in 1..Len(elems) |-> [elems[i] EXCEPT !.id = ElementIds[i], !.nth = i]]

\* tall: scrollHeight is above one and a half times clientHeight.
Fixture(elems, pager, lazy, infinite, hidden, tall) ==
    [elems |-> Placed(elems), pager |-> pager, lazy |-> lazy,
     infinite |-> infinite, hidden |-> hidden, content |-> 1, tall |-> tall]

Fixtures ==
    {Fixture(<<e>>, FALSE, FALSE, FALSE, 0, FALSE) :
        e \in ScoredElements \cup ClassedElements}
    \cup
    {Fixture(elems, FALSE, FALSE, FALSE, 0, FALSE) :
        elems \in UNION {[1..n -> RankedElements] : n \in 2..MaxElems}}
    \cup
    {Fixture(<<>>, pager, lazy, infinite, hidden, tall) :
        pager \in BOOLEAN, lazy \in BOOLEAN, infinite \in BOOLEAN,
        hidden \in 0..MaxHidden, tall \in BOOLEAN}

\* Where an exception can be raised in the scan of the document: nowhere,
\* at the k-th clickable element, or in the query of a later stage.
FaultPoint(doc, fault) ==
    \/ fault.stage = "none" /\ fault.k = 0
    \/ fault.stage = "element" /\ fault.k \in 1..Len(doc.elems)
    \/ fault.k = 0 /\ \E i \in 2..Len(AnalyzerStages) : fault.stage = AnalyzerStages[i]

\* dist/content.js: loadMoreTexts.
DistLoadMoreTexts ==
    << <<"load", " ", "more">>, <<"show", " ", "more">>, <<"view", " ", "more">>,
       <<"see", " ", "more">>, <<"read", " ", "more">>,
       <<"load", " ", "additional">>, <<"show", " ", "additional">>,
       <<"view", " ", "additional">>, <<"more", " ", "results">>,
       <<"more", " ", "items">>, <<"more", " ", "posts">>,
       <<"more", " ", "content">>, <<"continue", " ", "reading">>, <<"expand">>,
       <<"next", " ", "page">>, <<"load", " ", "next">>, <<"show", " ", "all">>,
       <<"view", " ", "all">>, <<"display", " ", "more">>,
       <<"reveal", " ", "more">>, <<"load", " ", "comments">>,
       <<"show", " ", "comments">>, <<"view", " ", "replies">>,
       <<"show", " ", "replies">> >>

\* dist/content.js: text, aria-label, title, class, id and data attributes
\* joined by spaces (the fixtures carry no title and no data attribute).
AllText(e) ==
    e.text \o <<" ">> \o e.ariaLabel \o <<" ">> \o <<" ">> \o e.className
    \o <<" ">> \o e.elemId \o <<" ">>

DistMatchesLoadMore(e) ==
    \E k \in 1..Len(DistLoadMoreTexts) : Includes(AllText(e), DistLoadMoreTexts[k])

HasIconClass(e) ==
    \E w \in {"icon", "arrow", "chevron", "plus", "expand"} :
        Includes(e.className, <<w>>)

\* dist/content.js calculateConfidence: h holds the conditions it tests.
calculateConfidence(h) ==
    LET sum ==
            (IF h.matchesLoadMore THEN 40 ELSE 0)
            + (IF h.hasIconClass THEN 15 ELSE 0)
            + (IF h.hasExpandSymbol THEN 20 ELSE 0)
            + (IF h.low THEN 10 ELSE 0)
            + (IF h.button THEN 15 ELSE 0)
            + (IF h.collapsed THEN 20 ELSE 0)
            + (IF h.controls THEN 15 ELSE 0)
            + (IF h.dataAttr THEN 25 ELSE 0)
    IN Min(sum, 100)

ScoringInputs ==
    [matchesLoadMore : BOOLEAN, hasIconClass : BOOLEAN,
     hasExpandSymbol : BOOLEAN, low : BOOLEAN, button : BOOLEAN,
     collapsed : BOOLEAN, controls : BOOLEAN, dataAttr : BOOLEAN]

\* The conditions calculateConfidence tests on a fixture element; low: the
\* element lies in the lowest 30% of the viewport or below.
ScoringOf(e, low) ==
    [matchesLoadMore |-> DistMatchesLoadMore(e), hasIconClass |-> HasIconClass(e),
     hasExpandSymbol |-> FALSE, low |-> low, button |-> e.tag = "button",
     collapsed |-> FALSE, controls |-> FALSE, dataAttr |-> FALSE]

RECURSIVE DistCandidates(_, _, _)
DistCandidates(elems, buttons, low) ==
    IF elems = <<>> THEN <<>>
    ELSE LET e == Lowered(Head(elems)) IN
         (IF (DistMatchesLoadMore(e) \/ HasIconClass(e))
              /\ (e.tag = "button") = buttons
            THEN <<[elem |-> e.id, tagName |-> e.tag, text |-> e.text,
                    visible |-> e.visible,
                    confidence |-> calculateConfidence(ScoringOf(e, low))]>>
            ELSE <<>>)
         \o DistCandidates(Tail(elems), buttons, low)

\* dist/content.js scanPageContent: the patterns of the snapshot.
DistScanPatterns(doc, low) ==
    [buttons |-> SortByConfidence(DistCandidates(doc.elems, TRUE, low)),
     links |-> SortByConfidence(DistCandidates(doc.elems, FALSE, low)),
     infiniteScroll |-> doc.tall,
     pagination |-> doc.pager,
     lazyLoad |-> doc.lazy,
     hiddenContent |->
         HiddenArray(IF doc.hidden > 0 THEN <<doc.hidden>> ELSE <<>>)]

\* A call of analyzePageContent() on the document; every behaviour makes one
\* call on its fixture.
FaultAt(stage, k) == [stage |-> stage, k |-> k]

Analyze(stage, k) ==
    /\ lastCall = NoCall
    /\ FaultPoint(page, FaultAt(stage, k))
    /\ lastCall' = [op |-> "analyze", fault |-> FaultAt(stage, k),
                    result |-> analyzePageContent(page, url, now, FaultAt(stage, k))]
    /\ UNCHANGED <<page, url, now, cache, loadMoreActive, loadMoreStopped,
                   sessions, events, alive, setAt, scans, rateLimiter,
                   throttled, autoDetection>>

\* A call of the dist scanPageContent() on the document.
DistScan(low) ==
    /\ lastCall = NoCall
    /\ lastCall' = [op |-> "distScan", low |-> low,
                    result |-> [patterns |-> DistScanPatterns(page, low),
                                contentCount |-> page.content]]
    /\ UNCHANGED <<page, url, now, cache, loadMoreActive, loadMoreStopped,
                   sessions, events, alive, setAt, scans, rateLimiter,
                   throttled, autoDetection>>

\* A call of the dist calculateConfidence on any combination of conditions.
CalculateConfidenceCall(h) ==
    /\ lastCall = NoCall
    /\ lastCall' = [op |-> "confidence", inputs |-> h,
                    result |-> calculateConfidence(h)]
    /\ UNCHANGED <<page, url, now, cache, loadMoreActive, loadMoreStopped,
                   sessions, events, alive, setAt, scans, rateLimiter,
                   throttled, autoDetection>>

InitAnalyzer ==
    /\ page \in Fixtures
    /\ url = "u1"
    /\ now = 0
    /\ cache = EmptyCache
    /\ loadMoreActive = FALSE
    /\ loadMoreStopped = FALSE
    /\ sessions = <<>>
    /\ events = <<>>
    /\ alive = TRUE
    /\ lastCall = NoCall
    /\ setAt = 0
    /\ scans = 0
    /\ rateLimiter = <<>>
    /\ throttled = NewThrottle
    /\ autoDetection = NoDetection

NextAnalyzer ==
    \/ \E k \in 0..MaxElems, stage \in {"none"} \cup {AnalyzerStages[i] : i \in 1..6} :
           Analyze(stage, k)
    \/ \E low \in BOOLEAN : DistScan(low)
    \/ \E h \in ScoringInputs : CalculateConfidenceCall(h)

SpecAnalyzer == InitAnalyzer /\ [][NextAnalyzer]_vars

AnalyzerTypeOK == lastCall.op \in {"none", "analyze", "distScan", "confidence"}

(***************************************************************************)
(* C21..C25: the snapshot of the page analyzer.                            *)
(***************************************************************************)
Analyzed == lastCall.op = "analyze"

AnalyzeFailed == Analyzed /\ lastCall.fault.stage # "none"

\* C21: when an exception is raised at any point of the scan, also after
\* candidates were collected, the snapshot that analyzePageContent returns
\* has no buttons and no links, every pattern flag false, and carries the
\* error.
C21_FailureSnapshotEmpty ==
    AnalyzeFailed =>
        LET patterns == lastCall.result.patterns IN
        /\ "error" \in DOMAIN lastCall.result
        /\ patterns.buttons = <<>>
        /\ patterns.links = <<>>
        /\ ~patterns.pagination
        /\ ~patterns.lazyLoad
        /\ ~patterns.infiniteScroll
        /\ ~patterns.hiddenContent.flag
        /\ patterns.hiddenContent.items = <<>>

NonIncreasing(list) ==
    \A i \in 1..Len(list) - 1 : list[i].confidence >= list[i + 1].confidence

\* The snapshot of a scan that ran to its end has both lists in order.
CompletedScanSorted ==
    (\/ Analyzed /\ ~AnalyzeFailed
     \/ lastCall.op = "distScan") =>
        /\ NonIncreasing(lastCall.result.patterns.buttons)
        /\ NonIncreasing(lastCall.result.patterns.links)

CandidatesOf(result) ==
    {result.patterns.buttons[i] : i \in 1..Len(result.patterns.buttons)}
    \cup {result.patterns.links[i] : i \in 1..Len(result.patterns.links)}

\* C23: the confidence of every candidate lies within 0..100, for every
\* combination of the scoring inputs: all bonuses together, and a disabled
\* element without a bonus.
C23_ConfidenceInRange ==
    /\ (Analyzed \/ lastCall.op = "distScan") =>
           \A c \in CandidatesOf(lastCall.result) : c.confidence \in 0..100
    /\ lastCall.op = "confidence" => lastCall.result \in 0..100

\* A hidden, disabled element matched by its class "expand" only (15 - 20
\* before the clamp) has been scored, and so has one with every bonus.
C23_Witness ==
    /\ Analyzed
    /\ ~AnalyzeFailed
    /\ \E c \in CandidatesOf(lastCall.result) :
          /\ c.confidence = 0
          /\ ~c.visible
          /\ \E e \in {page.elems[i] : i \in 1..Len(page.elems)} :
                e.id = c.elem /\ e.disabled /\ e.className = <<"expand">>
                /\ e.text = <<>> /\ e.ariaLabel = <<>>

\* Every bonus of the analyzer applies to one element: the sum is 100.
C23_AllBonuses ==
    /\ Analyzed
    /\ \E c \in CandidatesOf(lastCall.result) : c.confidence = 100

HasLoadMoreButton(doc) ==
    \E i \in 1..Len(doc.elems) :
        doc.elems[i].tag = "button" /\ doc.elems[i].text = <<"Load", " ", "More">>

\* C24: for every page with a <button> whose text is "Load More", whatever
\* its class, aria-label, visibility and disabled or aria-disabled state,
\* the analyzer returns a non-empty buttons list whose first entry has a
\* confidence of at least 40.
C24_LoadMoreButtonScore ==
    (/\ \/ Analyzed /\ ~AnalyzeFailed
        \/ lastCall.op = "distScan"
     /\ HasLoadMoreButton(page)) =>
        /\ lastCall.result.patterns.buttons # <<>>
        /\ lastCall.result.patterns.buttons[1].confidence >= 40

\* The same for the analyzer of dist/content.js alone.
DistLoadMoreButtonScore ==
    (lastCall.op = "distScan" /\ HasLoadMoreButton(page)) =>
        /\ lastCall.result.patterns.buttons # <<>>
        /\ lastCall.result.patterns.buttons[1].confidence >= 40

AllFourPresent(doc) == doc.pager /\ doc.lazy /\ doc.hidden > 0 /\ doc.infinite

\* hiddenContent reports hidden content: true, or a non-empty list of groups.
HiddenReported(h) == IF h.isArray THEN h.items # <<>> ELSE h.flag

\* C25: on a page with a .pagination element, an img[loading=lazy], a
\* .hidden element and an element whose class contains "infinite", the
\* snapshot reports pagination, lazyLoad, hiddenContent and infiniteScroll
\* all at once.
C25_FlagsIndependent ==
    (/\ \/ Analyzed /\ ~AnalyzeFailed
        \/ lastCall.op = "distScan"
     /\ AllFourPresent(page)) =>
        LET patterns == lastCall.result.patterns IN
        /\ patterns.pagination
        /\ patterns.lazyLoad
        /\ patterns.infiniteScroll
        /\ HiddenReported(patterns.hiddenContent)

\* The same for analyzePageContent of modules/detection.js alone, and each
\* flag there follows its own selector group.
DetectionFlagsIndependent ==
    (Analyzed /\ ~AnalyzeFailed) =>
        LET patterns == lastCall.result.patterns IN
        /\ patterns.pagination = page.pager
        /\ patterns.lazyLoad = page.lazy
        /\ patterns.infiniteScroll = page.infinite
        /\ HiddenReported(patterns.hiddenContent) = (page.hidden > 0)

(***************************************************************************)
(* Scroll-to-load-more: scrollToLoadMoreButton of the content script with  *)
(* its retry chain, and the function that the popup's                      *)
(* smoothScrollToLoadMore injects, with the highlight and its two timers.  *)
(* In this specification `page` holds whether a target matches and the     *)
(* inline style of the target, `sessions` the pending timeouts in the      *)
(* order they were set, `events` the attempts made and `scans` the number  *)
(* of calls from outside.                                                  *)
(***************************************************************************)
maxRetries == 5
retryDelay == 500
HighlightHold == 500
RestoreDelay == 300

TimeStep == 100
MaxEntries == 2

StyleProps == {"transition", "boxShadow", "transform"}

HighlightStyle ==
    [transition |-> "all 300ms ease", boxShadow |-> "glow",
     transform |-> "scale(1.02)"]

\* style.cssText read: the declarations of the properties that are set.
CssText(style) == {<<p, style[p]>> : p \in {q \in StyleProps : style[q] # ""}}

\* style.cssText written: the inline style becomes the declarations of the
\* text and nothing else.
ParseCssText(text) ==
    [p \in StyleProps |->
        IF \E d \in text : d[1] = p THEN (CHOOSE d \in text : d[1] = p)[2] ELSE ""]

\* A pending timeout: left is the time until it is due, waited the time
\* since it was set.
RetryTimeout(chain, retryCount, delay) ==
    [kind |-> "retry", chain |-> chain, retryCount |-> retryCount,
     left |-> delay, waited |-> 0,
     originalStyle |-> {}, originalTransition |-> ""]

HighlightTimeout(kind, delay, originalStyle, originalTransition) ==
    [kind |-> kind, chain |-> 0, retryCount |-> 0, left |-> delay, waited |-> 0,
     originalStyle |-> originalStyle, originalTransition |-> originalTransition]

\* An attempt of scrollToLoadMoreButton: after is the time since the
\* attempt before it in the chain.
Attempt(chain, retryCount, after, outcome) ==
    [type |-> "attempt", chain |-> chain, retryCount |-> retryCount,
     after |-> after, outcome |-> outcome]

Without(timeouts, i) == SubSeq(timeouts, 1, i - 1) \o SubSeq(timeouts, i + 1, Len(timeouts))

\* A timeout runs when it is due, and those due together run in the order
\* they were set.
Due(i) ==
    /\ i \in 1..Len(sessions)
    /\ sessions[i].left = 0
    /\ \A j \in 1..i - 1 : sessions[j].left > 0

\* scrollToLoadMoreButton(retryCount), after the timeouts in `pending`.
\* With a target the function reaches throttledScroll(...), a name that the
\* script declares nowhere: the call raises a ReferenceError before the
\* highlight. Without a target it sets the retry timeout while retryCount
\* is below maxRetries.
scrollToLoadMoreButton(chain, retryCount, after, pending) ==
    IF page.target
      THEN /\ sessions' = pending
           /\ events' = Append(events, Attempt(chain, retryCount, after, "throws"))
      ELSE IF retryCount < maxRetries
      THEN /\ sessions' = Append(pending,
                                 RetryTimeout(chain, retryCount + 1, retryDelay))
           /\ events' = Append(events, Attempt(chain, retryCount, after, "retry"))
      ELSE /\ sessions' = pending
           /\ events' = Append(events, Attempt(chain, retryCount, after, "gives up"))

\* The DOMContentLoaded timeout, the load timeout or the mutation observer
\* calls scrollToLoadMoreButton().
ScrollToLoadMoreButtonCall ==
    /\ scans < MaxEntries
    /\ scans' = scans + 1
    /\ scrollToLoadMoreButton(scans + 1, 0, 0, sessions)
    /\ UNCHANGED <<page, url, now, cache, loadMoreActive, loadMoreStopped,
                   alive, lastCall, setAt, rateLimiter, throttled, autoDetection>>

RetryFires(i) ==
    /\ Due(i)
    /\ sessions[i].kind = "retry"
    /\ scrollToLoadMoreButton(sessions[i].chain, sessions[i].retryCount,
                              sessions[i].waited, Without(sessions, i))
    /\ UNCHANGED <<page, url, now, cache, loadMoreActive, loadMoreStopped,
                   alive, lastCall, setAt, scans, rateLimiter, throttled,
                   autoDetection>>

\* The function injected by smoothScrollToLoadMore: with a target it scrolls,
\* reads cssText and transition, sets the highlight and the first timeout.
SmoothScrollToLoadMore ==
    /\ scans < MaxEntries
    /\ scans' = scans + 1
    /\ IF page.target
         THEN /\ page' = [page EXCEPT !.style = HighlightStyle,
                                      !.highlights = @ + 1]
              /\ sessions' = Append(sessions,
                     HighlightTimeout("unhighlight", HighlightHold,
                                      CssText(page.style), page.style.transition))
         ELSE UNCHANGED <<page, sessions>>
    /\ UNCHANGED <<url, now, cache, loadMoreActive, loadMoreStopped, events,
                   alive, lastCall, setAt, rateLimiter, throttled, autoDetection>>

\* The first timeout of the highlight.
UnhighlightFires(i) ==
    /\ Due(i)
    /\ sessions[i].kind = "unhighlight"
    /\ page' = [page EXCEPT !.style =
                   [@ EXCEPT !.transition = sessions[i].originalTransition,
                             !.boxShadow = "", !.transform = ""]]
    /\ sessions' = Append(Without(sessions, i),
                          HighlightTimeout("restore", RestoreDelay,
                                           sessions[i].originalStyle,
                                           sessions[i].originalTransition))
    /\ UNCHANGED <<url, now, cache, loadMoreActive, loadMoreStopped, events,
                   alive, lastCall, setAt, scans, rateLimiter, throttled,
                   autoDetection>>

\* The second timeout of the highlight.
RestoreFires(i) ==
    /\ Due(i)
    /\ sessions[i].kind = "restore"
    /\ page' = [page EXCEPT !.style = ParseCssText(sessions[i].originalStyle)]
    /\ sessions' = Without(sessions, i)
    /\ UNCHANGED <<url, now, cache, loadMoreActive, loadMoreStopped, events,
                   alive, lastCall, setAt, scans, rateLimiter, throttled,
                   autoDetection>>

\* The page inserts an element that the selectors match.
TargetAppears ==
    /\ ~page.target
    /\ page' = [page EXCEPT !.target = TRUE]
    /\ UNCHANGED <<url, now, cache, loadMoreActive, loadMoreStopped, sessions,
                   events, alive, lastCall, setAt, scans, rateLimiter, throttled,
                   autoDetection>>

\* Time passes, by TimeStep or up to the next timeout that is due.
Elapse ==
    /\ sessions # <<>>
    /\ \A i \in 1..Len(sessions) : sessions[i].left > 0
    /\ LET d == CHOOSE d \in 1..TimeStep :
                    /\ \A i \in 1..Len(sessions) : d <= sessions[i].left
                    /\ \/ d = TimeStep
                       \/ \E i \in 1..Len(sessions) : d = sessions[i].left
       IN sessions' = [i \in 1..Len(sessions) |->
                          [sessions[i] EXCEPT !.left = @ - d, !.waited = @ + d]]
    /\ UNCHANGED <<page, url, now, cache, loadMoreActive, loadMoreStopped,
                   events, alive, lastCall, setAt, scans, rateLimiter, throttled,
                   autoDetection>>

\* The inline styles that the page gives the target; initial is the style
\* before the first highlight.
OwnStyles ==
    {[transition |-> t, boxShadow |-> b, transform |-> ""] :
        t \in {"", "own"}, b \in {"", "own"}}

InitScroll ==
    /\ page \in {[target |-> target, style |-> style, initial |-> style,
                  highlights |-> 0] : target \in BOOLEAN, style \in OwnStyles}
    /\ url = "u1"
    /\ now = 0
    /\ cache = EmptyCache
    /\ loadMoreActive = FALSE
    /\ loadMoreStopped = FALSE
    /\ sessions = <<>>
    /\ events = <<>>
    /\ alive = TRUE
    /\ lastCall = NoCall
    /\ setAt = 0
    /\ scans = 0
    /\ rateLimiter = <<>>
    /\ throttled = NewThrottle
    /\ autoDetection = NoDetection

NextScroll ==
    \/ ScrollToLoadMoreButtonCall
    \/ SmoothScrollToLoadMore
    \/ \E i \in 1..(3 * MaxEntries) : RetryFires(i)
    \/ \E i \in 1..(3 * MaxEntries) : UnhighlightFires(i)
    \/ \E i \in 1..(3 * MaxEntries) : RestoreFires(i)
    \/ TargetAppears
    \/ Elapse

SpecScroll == InitScroll /\ [][NextScroll]_vars

ScrollTypeOK == Len(sessions) <= MaxEntries

(***************************************************************************)
(* C26, C27: retries and highlight of scroll-to-load-more.                 *)
(***************************************************************************)
AttemptsOfChain(chain) ==
    {i \in 1..Len(events) : events[i].type = "attempt" /\ events[i].chain = chain}

\* No attempt of the chain found a target.
NeverFound(chain) ==
    \A i \in AttemptsOfChain(chain) : events[i].outcome # "throws"

\* C26: a chain of scrollToLoadMoreButton started with retryCount 0 that
\* never finds a target makes at most 5 attempts in total, each 500 ms
\* after the one before, and sets no timeout after the last.
C26_AtMostFiveAttempts ==
    \A chain \in 1..MaxEntries :
        NeverFound(chain) => Cardinality(AttemptsOfChain(chain)) <= 5

\* The rest of the retry policy: attempts after the first come retryDelay
\* after the one before, there are at most maxRetries + 1 of them, and the
\* attempt with retryCount = maxRetries leaves no retry timeout behind.
RetryChainEnds ==
    \A chain \in 1..MaxEntries :
        /\ Cardinality(AttemptsOfChain(chain)) <= maxRetries + 1
        /\ \A i \in AttemptsOfChain(chain) :
              /\ events[i].retryCount > 0 => events[i].after = retryDelay
              /\ events[i].retryCount = maxRetries =>
                    /\ events[i].outcome # "retry"
                    /\ \A j \in 1..Len(sessions) :
                          ~(sessions[j].kind = "retry" /\ sessions[j].chain = chain)

HighlightPending ==
    \E i \in 1..Len(sessions) : sessions[i].kind \in {"unhighlight", "restore"}

\* C27: once every highlight timeout has run, the inline style of the
\* target is the style it had before the first highlight, also when the
\* highlight was applied again to the element while an earlier highlight was
\* still in progress.
C27_StyleRestored ==
    (page.highlights > 0 /\ ~HighlightPending) =>
        CssText(page.style) = CssText(page.initial)

\* A highlight that no other highlight overlaps restores the style.
SingleHighlightRestored ==
    (page.highlights = 1 /\ ~HighlightPending) =>
        CssText(page.style) = CssText(page.initial)

(***************************************************************************)
(* The content script with auto-detection and the page-unload handlers:    *)
(* autoDetectionState, the beforeunload and pagehide listeners, and the    *)
(* expansion controller.                                                   *)
(***************************************************************************)
MaxUnloads == 1

\* The visible elements that performDetection tracks: buttons and links
\* with a load-more class, and the pagination element.
Detected(pg) ==
    (IF pg.btn = "visible" /\ pg.btnClass THEN {"btn"} ELSE {})
    \cup (IF pg.lnk = "visible" /\ pg.lnkClass THEN {"lnk"} ELSE {})
    \cup (IF pg.pager THEN {"pager"} ELSE {})

\* performDetection(): tracks what it detects and untracks what is no longer
\* visible (calls less than 2 s apart return at once; the interval is 5 s).
performDetection(d, pg) == [d EXCEPT !.trackedElements = Detected(pg)]

\* startAutoDetection(), called by the timeout of the script's
\* initialisation and by the load listener.
StartAutoDetection ==
    /\ alive
    /\ ~autoDetection.isTracking
    /\ autoDetection' =
           performDetection([autoDetection EXCEPT !.isTracking = TRUE,
                                                  !.detectionInterval = TRUE],
                            page)
    /\ UNCHANGED <<page, url, now, cache, loadMoreActive, loadMoreStopped,
                   sessions, events, alive, lastCall, setAt, scans, rateLimiter,
                   throttled>>

\* The 5 s interval of startAutoDetection.
DetectionIntervalFires ==
    /\ alive
    /\ autoDetection.detectionInterval
    /\ autoDetection' = performDetection(autoDetection, page)
    /\ UNCHANGED <<page, url, now, cache, loadMoreActive, loadMoreStopped,
                   sessions, events, alive, lastCall, setAt, scans, rateLimiter,
                   throttled>>

\* The beforeunload and the pagehide listener: stopAutoDetection() and
\* clearTracking(). The page is then unloaded, or stays: the navigation is
\* cancelled, or the page comes back from the back/forward cache.
UnloadEvent(stays) ==
    /\ alive
    /\ autoDetection.unloads < MaxUnloads
    /\ autoDetection' = [isTracking |-> FALSE, detectionInterval |-> FALSE,
                         trackedElements |-> {},
                         unloads |-> autoDetection.unloads + 1]
    /\ alive' = stays
    /\ UNCHANGED <<page, url, now, cache, loadMoreActive, loadMoreStopped,
                   sessions, events, lastCall, setAt, scans, rateLimiter,
                   throttled>>

\* Pages with and without a button that clicks load content from.
UnloadPages ==
    {pg \in InitPages :
        /\ pg.btn # "hidden" /\ pg.lnk = "absent" /\ ~pg.next
        /\ pg.hidden = 0 /\ pg.content = 1}

InitUnload == \E pg \in UnloadPages : Loaded(pg)

NextUnload ==
    \/ \E maxClicks \in ClickLimits, method \in {"auto", "button"}, o \in Outcomes :
          Start(maxClicks, method, "none", o)
    \/ \E sid \in 1..MaxSessions, o \in Outcomes : TimerFires(sid, "none", o)
    \/ \E sid \in 1..MaxSessions, o \in Outcomes : PreClickSleepEnds(sid, "none", o)
    \/ \E sid \in 1..MaxSessions : DelayEnds(sid, "none")
    \/ Stop
    \/ StartAutoDetection
    \/ DetectionIntervalFires
    \/ \E stays \in BOOLEAN : UnloadEvent(stays)

SpecUnload == InitUnload /\ [][NextUnload]_vars

UnloadEventStep == autoDetection'.unloads = autoDetection.unloads + 1

\* C28: a beforeunload or pagehide event clears the controller's flags:
\* after the event loadMoreActive is false and no session is running, so
\* that no expansion cycle acts after it.
C28_UnloadClearsFlags ==
    [][UnloadEventStep => (~loadMoreActive' /\ RunningSessions' = {})]_vars

(***************************************************************************)
(* SecurityUtils.checkRateLimit with several identifiers.  In this         *)
(* specification `rateLimiter` is the Map of the class: a function from    *)
(* the identifiers seen so far to their request times.                     *)
(***************************************************************************)
MaxTicks == 2
MaxOther == 2

Identifiers == {"bg-1", "bg-2"}

NoRequests == [id \in {} |-> <<>>]

RequestsOf(limiter, identifier) ==
    IF identifier \in DOMAIN limiter THEN limiter[identifier] ELSE <<>>

\* checkRateLimit(identifier) on the Map: the result and the Map after it.
checkRateLimitOf(limiter, identifier, t) ==
    LET r == checkRateLimit(RequestsOf(limiter, identifier), t) IN
    [result |-> IF r.allowed THEN [allowed |-> TRUE, error |-> ""]
                ELSE [allowed |-> FALSE, error |-> "Rate limit exceeded"],
     limiter |-> [id \in DOMAIN limiter \cup {identifier} |->
                     IF id = identifier THEN r.requests ELSE limiter[id]]]

\* A request of the identifier; the second identifier makes few requests.
CheckRateLimitCall(identifier) ==
    /\ identifier = "bg-2" => Len(RequestsOf(rateLimiter, identifier)) < MaxOther
    /\ LET c == checkRateLimitOf(rateLimiter, identifier, now) IN
       /\ rateLimiter' = c.limiter
       /\ lastCall' = [op |-> "checkRateLimit", identifier |-> identifier,
                       result |-> c.result]
    /\ UNCHANGED <<page, url, now, cache, loadMoreActive, loadMoreStopped,
                   sessions, events, alive, setAt, scans, throttled,
                   autoDetection>>

\* Half a window passes.
HalfWindowPasses ==
    /\ now < MaxTicks * (RateWindow \div 2)
    /\ now' = now + RateWindow \div 2
    /\ UNCHANGED <<page, url, cache, loadMoreActive, loadMoreStopped, sessions,
                   events, alive, lastCall, setAt, scans, rateLimiter, throttled,
                   autoDetection>>

InitRate ==
    /\ page = PlainPage(0, 1)
    /\ url = "u1"
    /\ now = 0
    /\ cache = EmptyCache
    /\ loadMoreActive = FALSE
    /\ loadMoreStopped = FALSE
    /\ sessions = <<>>
    /\ events = <<>>
    /\ alive = TRUE
    /\ lastCall = NoCall
    /\ setAt = 0
    /\ scans = 0
    /\ rateLimiter = NoRequests
    /\ throttled = NewThrottle
    /\ autoDetection = NoDetection

NextRate ==
    \/ \E identifier \in Identifiers : CheckRateLimitCall(identifier)
    \/ HalfWindowPasses

SpecRate == InitRate /\ [][NextRate]_vars

\* The allowed requests of the identifier that lie within the window of
\* RateWindow ms that ends at t.
InWindow(limiter, identifier, t) ==
    LET Recent(time) == time > t - RateWindow /\ time <= t
    IN Len(SelectSeq(RequestsOf(limiter, identifier), Recent))

\* C29: for each identifier at most 30 requests are allowed within a window
\* of 60 000 ms (the window that ends with the request and excludes the
\* instant 60 000 ms before it); a request that arrives when 30 allowed
\* requests of its identifier lie in that window is refused with 'Rate limit
\* exceeded' and not recorded, and the requests of other identifiers do not
\* count.
C29_RateLimit ==
    [][\A identifier \in Identifiers :
          (now' = now /\ lastCall'.identifier = identifier) =>
              /\ InWindow(rateLimiter', identifier, now) <= maxRequestsPerMinute
              /\ IF InWindow(rateLimiter, identifier, now) >= maxRequestsPerMinute
                   THEN /\ lastCall'.result =
                               [allowed |-> FALSE, error |-> "Rate limit exceeded"]
                        /\ InWindow(rateLimiter', identifier, now)
                              = InWindow(rateLimiter, identifier, now)
                   ELSE /\ lastCall'.result.allowed
                        /\ InWindow(rateLimiter', identifier, now)
                              = InWindow(rateLimiter, identifier, now) + 1
              /\ \A other \in Identifiers \ {identifier} :
                    RequestsOf(rateLimiter', other) = RequestsOf(rateLimiter, other)]_vars

\* A request of "bg-1" has been refused while "bg-2" had requests in the
\* window and was below the limit.
C29_Witness ==
    /\ lastCall.op = "checkRateLimit"
    /\ lastCall.identifier = "bg-1"
    /\ ~lastCall.result.allowed
    /\ InWindow(rateLimiter, "bg-1", now) = maxRequestsPerMinute
    /\ InWindow(rateLimiter, "bg-2", now) \in 1..(maxRequestsPerMinute - 1)
    /\ now > 0

(***************************************************************************)
(* The background service worker: the chrome.runtime.onMessage listener    *)
(* and handleScanPage, handleExpandContent and handleStopExpansion.  In    *)
(* this specification `page` is the tab of the sender (whether it exists   *)
(* and its URL), `rateLimiter` the Map of SecurityUtils, `sessions` the    *)
(* handlers that wait at an await, and `lastCall` the last response sent   *)
(* or script injected.                                                     *)
(***************************************************************************)
MaxPending == 1

StartsWith(str, prefix) ==
    Len(str) >= Len(prefix) /\ SubSeq(str, 1, Len(prefix)) = prefix

\* A URL as new URL(url) reads it; parses is FALSE when new URL throws, as
\* it does for a tab without url.
Url(protocol, hostname) ==
    [parses |-> TRUE, protocol |-> protocol, hostname |-> hostname]

NoUrl == [parses |-> FALSE, protocol |-> "", hostname |-> <<>>]

\* The second octets of /^172\.(1[6-9]|2[0-9]|3[01])\./.
PrivateSecondOctets ==
    {"16", "17", "18", "19", "20", "21", "22", "23", "24", "25", "26", "27",
     "28", "29", "30", "31"}

\* validateUrl without the check of the host name.
validateUrlAnyHost(u) ==
    u.parses /\ u.protocol \in {"http:", "https:"}

\* SecurityUtils.validateUrl(url).  The IPv6 loopback host [::1] is none of
\* the hosts it blocks.
validateUrl(u) ==
    IF ~u.parses THEN FALSE
    ELSE IF u.protocol \notin {"http:", "https:"} THEN FALSE
    ELSE IF \/ u.hostname = <<"localhost">>
            \/ StartsWith(u.hostname, <<"127", ".">>)
            \/ StartsWith(u.hostname, <<"192", ".", "168", ".">>)
            \/ StartsWith(u.hostname, <<"10", ".">>)
            \/ /\ StartsWith(u.hostname, <<"172", ".">>)
               /\ Len(u.hostname) >= 4
               /\ u.hostname[3] \in PrivateSecondOctets
               /\ u.hostname[4] = "."
         THEN FALSE
    ELSE TRUE

TabUrls ==
    {Url("https:", <<"example", ".", "com">>),
     Url("http:", <<"172", ".", "32", ".", "0", ".", "1">>),
     Url("http:", <<"[::1]">>),
     Url("http:", <<"localhost">>),
     Url("http:", <<"127", ".", "0", ".", "0", ".", "1">>),
     Url("http:", <<"192", ".", "168", ".", "1", ".", "1">>),
     Url("http:", <<"10", ".", "0", ".", "0", ".", "1">>),
     Url("http:", <<"172", ".", "16", ".", "0", ".", "1">>),
     Url("chrome:", <<"extensions">>),
     Url("javascript:", <<>>),
     NoUrl}

\* parseInt(value) || fallback, clamped to lo..hi.
ClampOption(value, fallback, lo, hi) ==
    LET n == IF value.t = "number" /\ value.v # 0 THEN value.v ELSE fallback
    IN Min(Max(n, lo), hi)

\* handleExpandContent: sanitizedOptions.
SanitizedOptions(options) ==
    [maxClicks |-> ClampOption(options.maxClicks, 5, 1, 20),
     delay |-> ClampOption(options.delay, 1000, 500, 10000),
     method |-> IF options.method.t = "string"
                   /\ options.method.v \in {"button", "link", "scroll"}
                  THEN options.method.v ELSE "button"]

Response(message, sender, response) ==
    [op |-> "response", message |-> message, sender |-> sender,
     response |-> response]

\* A handler that waits for chrome.tabs.get or chrome.scripting.executeScript.
Handler(name, message, sender, rateCheck) ==
    [handler |-> name, message |-> message, sender |-> sender,
     rateCheck |-> rateCheck, stage |-> "tabs.get"]

HandlerOf(type) ==
    CASE type = "SCAN_PAGE" -> "handleScanPage"
      [] type = "EXPAND_CONTENT" -> "handleExpandContent"
      [] type = "STOP_EXPANSION" -> "handleStopExpansion"

FailureText(handler) ==
    CASE handler = "handleScanPage" -> "Failed to scan page content"
      [] handler = "handleExpandContent" -> "Failed to expand content"
      [] handler = "handleStopExpansion" -> "Failed to stop expansion"

\* !sender.tab?.id || sender.tab.id < 0
SenderRejected(sender) == Falsy(sender) \/ sender.v < 0

\* The listener up to the first await of the handler it calls.  sender is
\* sender.tab?.id; the handler checks the tab id once more before it awaits
\* (the numbers of the model are integers).
OnBackgroundMessage(message, sender) ==
    /\ Len(sessions) < MaxPending
    /\ LET validation == validateMessage(message)
           identifier == <<"bg-", sender>>
           c == checkRateLimitOf(rateLimiter, identifier, now)
       IN IF ~validation.valid
            THEN /\ lastCall' = Response(message, sender, [error |-> validation.error])
                 /\ UNCHANGED <<rateLimiter, sessions>>
          ELSE IF SenderRejected(sender)
            THEN /\ lastCall' = Response(message, sender,
                                         [error |-> "Invalid sender context"])
                 /\ UNCHANGED <<rateLimiter, sessions>>
          ELSE IF ~c.result.allowed
            THEN /\ lastCall' = Response(message, sender, [error |-> c.result.error])
                 /\ rateLimiter' = c.limiter
                 /\ UNCHANGED sessions
          ELSE IF message.type.v = "EXPAND_CONTENT"
                  /\ (Falsy(message.options) \/ message.options.t # "object")
            THEN /\ lastCall' = Response(message, sender,
                                         [error |-> "Invalid expansion options"])
                 /\ rateLimiter' = c.limiter
                 /\ UNCHANGED sessions
          ELSE IF sender.t # "number" \/ sender.v < 0
            THEN /\ lastCall' = Response(message, sender, [error |-> "Invalid tab ID"])
                 /\ rateLimiter' = c.limiter
                 /\ UNCHANGED sessions
          ELSE /\ sessions' = Append(sessions,
                                     Handler(HandlerOf(message.type.v), message,
                                             sender, c.result))
               /\ rateLimiter' = c.limiter
               /\ UNCHANGED lastCall
    /\ UNCHANGED <<page, url, now, cache, loadMoreActive, loadMoreStopped, events,
                   alive, setAt, scans, throttled, autoDetection>>

\* chrome.tabs.get(tabId) settles: it rejects when the tab is gone, and the
\* handler injects its function when the URL of the tab passes validateUrl.
TabsGetSettles(i) ==
    /\ i \in 1..Len(sessions)
    /\ sessions[i].stage = "tabs.get"
    /\ LET h == sessions[i] IN
       IF ~page.exists
         THEN /\ lastCall' = Response(h.message, h.sender,
                                      [error |-> FailureText(h.handler)])
              /\ sessions' = Without(sessions, i)
       ELSE IF ~validateUrl(page.url)
         THEN /\ lastCall' = Response(h.message, h.sender,
                                      [error |-> "Invalid or inaccessible tab"])
              /\ sessions' = Without(sessions, i)
       ELSE /\ lastCall' =
                   [op |-> "executeScript", tabId |-> h.sender.v,
                    url |-> page.url, request |-> h,
                    args |-> IF h.handler = "handleExpandContent"
                               THEN <<SanitizedOptions(h.message.options)>>
                               ELSE <<>>]
            /\ sessions' = [sessions EXCEPT ![i].stage = "executeScript"]
    /\ UNCHANGED <<page, url, now, cache, loadMoreActive, loadMoreStopped, events,
                   alive, setAt, scans, rateLimiter, throttled, autoDetection>>

\* chrome.scripting.executeScript settles.
ExecuteScriptSettles(i, ok) ==
    /\ i \in 1..Len(sessions)
    /\ sessions[i].stage = "executeScript"
    /\ lastCall' = Response(sessions[i].message, sessions[i].sender,
                            IF ok THEN [success |-> TRUE]
                            ELSE [error |-> FailureText(sessions[i].handler)])
    /\ sessions' = Without(sessions, i)
    /\ UNCHANGED <<page, url, now, cache, loadMoreActive, loadMoreStopped, events,
                   alive, setAt, scans, rateLimiter, throttled, autoDetection>>

TabNavigates(u) ==
    /\ page.exists
    /\ page' = [page EXCEPT !.url = u]
    /\ UNCHANGED <<url, now, cache, loadMoreActive, loadMoreStopped, sessions,
                   events, alive, lastCall, setAt, scans, rateLimiter, throttled,
                   autoDetection>>

TabCloses ==
    /\ page.exists
    /\ page' = [page EXCEPT !.exists = FALSE]
    /\ UNCHANGED <<url, now, cache, loadMoreActive, loadMoreStopped, sessions,
                   events, alive, lastCall, setAt, scans, rateLimiter, throttled,
                   autoDetection>>

BackgroundMessages ==
    {JsUndefined,
     JsMessage(JsString("PING"), JsUndefined, JsUndefined),
     JsMessage(JsString("SCAN_PAGE"), JsUndefined, JsUndefined),
     JsMessage(JsString("SCAN_PAGE"), JsUndefined, JsNumber(0 - 1)),
     JsMessage(JsString("EXPAND_CONTENT"), JsUndefined, JsUndefined),
     JsMessage(JsString("EXPAND_CONTENT"),
               JsOptions(JsNumber(50), JsUndefined, JsString("all")), JsUndefined),
     JsMessage(JsString("STOP_EXPANSION"), JsUndefined, JsUndefined)}

\* sender.tab?.id: undefined for a sender that is no tab.
Senders == {JsUndefined, JsNumber(0 - 1), JsNumber(0), JsNumber(1)}

InitBackground ==
    /\ page \in {[exists |-> TRUE, url |-> u] : u \in TabUrls}
    /\ url = "u1"
    /\ now = 0
    /\ cache = EmptyCache
    /\ loadMoreActive = FALSE
    /\ loadMoreStopped = FALSE
    /\ sessions = <<>>
    /\ events = <<>>
    /\ alive = TRUE
    /\ lastCall = NoCall
    /\ setAt = 0
    /\ scans = 0
    /\ rateLimiter = NoRequests
    /\ throttled = NewThrottle
    /\ autoDetection = NoDetection

NextBackground ==
    \/ \E message \in BackgroundMessages, sender \in Senders :
          OnBackgroundMessage(message, sender)
    \/ \E i \in 1..MaxPending : TabsGetSettles(i)
    \/ \E i \in 1..MaxPending, ok \in BOOLEAN : ExecuteScriptSettles(i, ok)
    \/ \E u \in TabUrls : TabNavigates(u)
    \/ TabCloses

SpecBackground == InitBackground /\ [][NextBackground]_vars

BackgroundTypeOK == Len(sessions) <= MaxPending

(***************************************************************************)
(* C30: script injection by the background worker.                         *)
(***************************************************************************)
\* The hosts of TabUrls that are loopback or private addresses of the kinds
\* validateUrl names.
BlockedHosts ==
    {<<"localhost">>,
     <<"127", ".", "0", ".", "0", ".", "1">>,
     <<"192", ".", "168", ".", "1", ".", "1">>,
     <<"10", ".", "0", ".", "0", ".", "1">>,
     <<"172", ".", "16", ".", "0", ".", "1">>}

UrlAdmissible(u) ==
    u.parses /\ u.protocol \in {"http:", "https:"} /\ u.hostname \notin BlockedHosts

\* The handler at position i calls chrome.scripting.executeScript.
Injects(i) ==
    /\ i \in 1..Len(sessions)
    /\ sessions[i].stage = "tabs.get"
    /\ sessions' = [sessions EXCEPT ![i].stage = "executeScript"]

\* The first three checks, on the message and the sender of a handler.
PassedListener(h) ==
    /\ validateMessage(h.message).valid
    /\ h.sender.t = "number"
    /\ h.sender.v >= 0
    /\ h.rateCheck.allowed

C30_RateRefused ==
    /\ lastCall.op = "response"
    /\ "error" \in DOMAIN lastCall.response
    /\ lastCall.response.error = "Rate limit exceeded"

(***************************************************************************)
(* content.js: a second startContentExpansion while a stopped session is   *)
(* still suspended.  Every call creates its own closure; the flags         *)
(* window.loadMoreActive and window.loadMoreStopped are shared.            *)
(***************************************************************************)
MaxStarts == 2

\* startContentExpansion({maxClicks, method}), for up to MaxStarts calls.
StartSession(maxClicks, method, o) ==
    /\ alive
    /\ Len(sessions) < MaxStarts
    /\ Len(events) < MaxEvents
    /\ StartExpansion(maxClicks, DefaultDelay, method, "none", o)
    /\ UNCHANGED lastCall

RestartPages ==
    {pg \in InitPages :
        /\ pg.btn # "hidden" /\ pg.lnk = "absent" /\ ~pg.next /\ pg.hidden = 0}

InitRestart == \E pg \in RestartPages : Loaded(pg)

NextRestart ==
    \/ \E method \in {"button", "scroll"}, o \in Outcomes :
          StartSession(MaxClicks, method, o)
    \/ \E sid \in 1..MaxStarts, o \in Outcomes : TimerFires(sid, "none", o)
    \/ \E sid \in 1..MaxStarts, o \in Outcomes : PreClickSleepEnds(sid, "none", o)
    \/ \E sid \in 1..MaxStarts : DelayEnds(sid, "none")
    \/ Stop

SpecRestart == InitRestart /\ [][NextRestart]_vars

\* The sessions that were running when stopContentExpansion was called.
StoppedSessions ==
    {i \in 1..Len(sessions) :
        \E j \in 1..Len(events) :
            events[j].action = "stopped" /\ i \in events[j].live}

\* Session i, stopped earlier, ends its sleep or its timer in this step and
\* goes on: it schedules the next cycle, or it begins one that does not halt.
Resumes(i) ==
    \/ sessions[i].pc = "postAction" /\ sessions'[i].pc = "timer"
    \/ sessions[i].pc = "timer" /\ sessions'[i].pc \in {"preClick", "postAction"}

\* C31: a session that was suspended when stopContentExpansion ran never
\* schedules or performs a further cycle, also when startContentExpansion
\* is called again before its sleep ends.
C31_StoppedNeverResumes ==
    [][\A i \in StoppedSessions : ~Resumes(i)]_vars

\* Without a second start a stopped session does not resume.
StoppedHaltsUnlessRestarted ==
    [][\A i \in StoppedSessions : Len(sessions) = 1 => ~Resumes(i)]_vars

\* After a stop of session 1 and a second start, both loops are running.
TwoLoopsRunning ==
    /\ Len(sessions) = 2
    /\ 1 \in StoppedSessions
    /\ sessions[1].pc = "timer"
    /\ Running(sessions[2])

(***************************************************************************)
(* content.js: the expansion loop on a page that has stopped changing.     *)
(* Clicks load nothing, remove nothing and do not navigate; a scroll       *)
(* reaches the bottom.  The progress messages are sent and not kept by the *)
(* script, so in this specification `events` holds the messages of the     *)
(* last step only and a loop of cycles is a cycle of states.  Timers and   *)
(* sleeps that are pending do fire: the event loop runs them.              *)
(***************************************************************************)
Static == [grow |-> FALSE, gone |-> FALSE, unload |-> FALSE]

\* The state after a step of session sid with result r.
StaticStep(sid, r, active) ==
    /\ sessions' = IF sid <= Len(sessions) THEN [sessions EXCEPT ![sid] = r.se]
                   ELSE Append(sessions, r.se)
    /\ page' = r.page
    /\ events' = r.emitted
    /\ alive' = r.survives
    /\ cache' = r.cache
    /\ loadMoreActive' = (active /\ ~r.deactivate)
    /\ UNCHANGED <<url, now, lastCall, setAt, scans, rateLimiter, throttled,
                   autoDetection>>

\* startContentExpansion({maxClicks, method}) with its first cycle.
StaticStart(maxClicks, method) ==
    /\ alive
    /\ Len(sessions) < MaxSessions
    /\ loadMoreStopped' = FALSE
    /\ StaticStep(1,
           CycleStart(1,
               [pc |-> "timer", clickCount |-> 0,
                lastContentCount |-> getCurrentContentCount(page),
                maxClicks |-> maxClicks, delay |-> DefaultDelay,
                requested |-> method,
                method |-> ExpansionMethod(method,
                    scanPageContent(cache, page, url, now).result
                        .detectionSummary.recommendedMethod),
                target |-> "none", clickFailed |-> FALSE],
               FALSE, page, scanPageContent(cache, page, url, now).cache,
               url, now, "none", Static),
           TRUE)

StaticTimerFires(sid) ==
    /\ alive
    /\ sid \in 1..Len(sessions)
    /\ sessions[sid].pc = "timer"
    /\ StaticStep(sid, CycleStart(sid, sessions[sid], loadMoreStopped, page,
                                  cache, url, now, "none", Static),
                  loadMoreActive)
    /\ UNCHANGED loadMoreStopped

StaticPreClickSleepEnds(sid) ==
    /\ alive
    /\ sid \in 1..Len(sessions)
    /\ sessions[sid].pc = "preClick"
    /\ StaticStep(sid, AfterPreClickSleep(sid, sessions[sid], page, cache,
                                          "none", Static),
                  loadMoreActive)
    /\ UNCHANGED loadMoreStopped

StaticDelayEnds(sid) ==
    /\ alive
    /\ sid \in 1..Len(sessions)
    /\ sessions[sid].pc = "postAction"
    /\ StaticStep(sid, AfterDelay(sid, sessions[sid], loadMoreStopped, page,
                                  cache, "none"),
                  loadMoreActive)
    /\ UNCHANGED loadMoreStopped

InitStatic == \E pg \in InitPages : Loaded(pg)

NextStatic ==
    \/ \E maxClicks \in 0..MaxClicks, method \in Methods :
          StaticStart(maxClicks, method)
    \/ \E sid \in 1..MaxSessions : StaticTimerFires(sid)
    \/ \E sid \in 1..MaxSessions : StaticPreClickSleepEnds(sid)
    \/ \E sid \in 1..MaxSessions : StaticDelayEnds(sid)

TimersFire ==
    \A sid \in 1..MaxSessions :
        /\ WF_vars(StaticTimerFires(sid))
        /\ WF_vars(StaticPreClickSleepEnds(sid))
        /\ WF_vars(StaticDelayEnds(sid))

SpecStatic == InitStatic /\ [][NextStatic]_vars /\ TimersFire

\* Session sid has halted: active is false and it has no timer or sleep
\* pending.
Halted(sid) ==
    sid <= Len(sessions) /\ ~loadMoreActive /\ ~Running(sessions[sid])

\* C32: on a page that has stopped changing every started session
\* eventually halts, active false and no cycle timer pending, for every
\* method and every maxClicks >= 0.
C32_EverySessionHalts ==
    \A sid \in 1..MaxSessions : (Len(sessions) >= sid) ~> Halted(sid)

\* The sessions of every method but pagination halt.
HaltsUnlessPagination ==
    \A sid \in 1..MaxSessions :
        (Len(sessions) >= sid /\ sessions[sid].method # "pagination")
            ~> Halted(sid)

(***************************************************************************)
(* One strategy per cycle.  A cycle of a session runs from the call of     *)
(* performExpansion (at the start or by the timer) to its return; the      *)
(* sleep before the click and the sleep after the action lie inside it.    *)
(***************************************************************************)
\* The strategy events that session i emits in this step.
StrategyEventsOf(i) ==
    SelectSeq(SubSeq(events', Len(events) + 1, Len(events')),
              LAMBDA e : e.sid = i /\ e.action \in AttemptActions)

\* The click strategy can act in a cycle of session i that begins now.
ClickAvailable(i, method) ==
    /\ ClickGate(method)
    /\ isElementVisible(findBestLoadMoreButton(cache, page, url, now))

C33_Step(i) ==
    LET acted == StrategyEventsOf(i)
        started == i > Len(sessions)
        se == IF started THEN sessions'[i] ELSE sessions[i]
    IN /\ Len(acted) <= 1
       \* the sleep before the click is entered without an event
       /\ sessions'[i].pc = "preClick" => acted = <<>>
       \* an acting strategy is followed by the sleep, and acts only from
       \* the beginning of a cycle or after the sleep before the click
       /\ acted # <<>> =>
             /\ sessions'[i].pc = "postAction"
             /\ started \/ sessions[i].pc \in {"timer", "preClick"}
             /\ acted[1].action = "clicked" =>
                   ~started /\ sessions[i].pc = "preClick" /\ ClickGate(se.method)
             /\ (acted[1].action # "clicked" /\ (started \/ sessions[i].pc = "timer"))
                   => ~ClickAvailable(i, se.method)
             /\ acted[1].action = "scrolled" => ScrollGate(se.method)
             /\ acted[1].action = "expanded" =>
                   /\ ExpandGate(se.method)
                   /\ ~(ScrollGate(se.method) /\ page.scrollable)
             /\ acted[1].action = "pagination" =>
                   /\ PaginationGate(se.method)
                   /\ ~(ScrollGate(se.method) /\ page.scrollable)
                   /\ ~(ExpandGate(se.method) /\ expandHiddenContent(page) > 0)

EndsDelay(i) ==
    /\ i \in 1..Len(sessions)
    /\ sessions[i].pc = "postAction"
    /\ sessions'[i].pc # "postAction"

\* The events that session i emits in this step.
EmittedBy(i) ==
    SelectSeq(SubSeq(events', Len(events) + 1, Len(events')),
              LAMBDA e : e.sid = i)

C34_Step(i) ==
    LET se == sessions[i]
        newContentCount == getCurrentContentCount(page)
        loaded == <<Emit(i, "loaded", se.clickCount)>>
    IN /\ sessions'[i].lastContentCount >= se.lastContentCount
       /\ IF EndsDelay(i) /\ sessions'[i].pc # "rejected"
             THEN /\ EmittedBy(i) = (IF newContentCount > se.lastContentCount
                                        THEN loaded ELSE <<>>)
                  /\ sessions'[i].lastContentCount
                         = Max(newContentCount, se.lastContentCount)
                  /\ (sessions'[i].pc = "timer") <=> ~loadMoreStopped
                  /\ sessions'[i].pc \in {"timer", "done"}
             ELSE \A k \in 1..Len(EmittedBy(i)) : EmittedBy(i)[k].action # "loaded"

Qualifying(list) == SelectSeq(list, LAMBDA c : c.confidence > 60)

QualifyingIds(list) == {Qualifying(list)[k].elem : k \in 1..Len(Qualifying(list))}

\* C35: the element that the click strategy is about to click is the
\* element of a candidate of the current analysis with confidence > 60, and
\* it is a link only when no visible button qualifies; an element without
\* such a candidate is never chosen.
C35_ClickTargetQualified ==
    \A i \in 1..Len(sessions) :
        sessions[i].pc = "preClick" =>
            LET patterns == AnalyzePageContent(page, url, now).patterns
                buttons == QualifyingIds(patterns.buttons)
                links == QualifyingIds(patterns.links)
            IN /\ sessions[i].target \in buttons \cup links
               /\ sessions[i].target \in links =>
                     \A k \in 1..Len(Clickables(page)) :
                         Clickables(page)[k].id \in buttons
                             => ~isElementVisible(Clickables(page)[k])

(***************************************************************************)
(* The snapshot of scanPageContent against the analyzer's findings.        *)
(***************************************************************************)
\* C36: a scan in which the analyzer ran (and raised nothing) returns a
\* snapshot that carries the analyzer's lists as patterns.buttons and
\* patterns.links, whose hasLoadMoreButtons and hasLoadMoreLinks say
\* whether those lists are non-empty, whose hasHiddenContent says whether
\* the analyzer detected hidden content, and that has no error field.
C36_SnapshotReflectsAnalysis ==
    (lastCall.op = "scan" /\ Last(scans).analysed) =>
        LET found == AnalyzePageContent(page, url, now).patterns
            snapshot == lastCall.ret
        IN /\ snapshot.patterns.buttons = found.buttons
           /\ snapshot.patterns.links = found.links
           /\ snapshot.detectionSummary.hasLoadMoreButtons = (found.buttons # <<>>)
           /\ snapshot.detectionSummary.hasLoadMoreLinks = (found.links # <<>>)
           /\ snapshot.detectionSummary.hasHiddenContent
                  = HiddenDetected(found.hiddenContent)
           /\ ~snapshot.error

(***************************************************************************)
(* The two candidate lists of the analyzer.                                *)
(***************************************************************************)
\* The number of entries of list that describe the element id.
EntriesOf(list, id) == Len(SelectSeq(list, LAMBDA c : c.elem = id))

\* The clickable elements of the document that match the vocabulary.
MatchingElements(doc) ==
    {e \in {doc.elems[i] : i \in 1..Len(doc.elems)} : matchesLoadMore(Lowered(e))}

ShowMoreLink(e) == e.tag = "a" /\ e.className = <<"show", "-", "more">>

\* C37: after a scan that ran to its end, every clickable element that
\* matches the vocabulary has exactly one entry, in `buttons` when it is a
\* <button> and in `links` otherwise, and none in the other list; a
\* document with an <a class="show-more"> has a non-empty `links`.
C37_EveryMatchBucketed ==
    (Analyzed /\ ~AnalyzeFailed) =>
        LET patterns == lastCall.result.patterns IN
        /\ \A e \in MatchingElements(page) :
              /\ EntriesOf(patterns.buttons, e.id) + EntriesOf(patterns.links, e.id) = 1
              /\ e.tag = "button" <=> EntriesOf(patterns.buttons, e.id) = 1
        /\ (\E i \in 1..Len(page.elems) : ShowMoreLink(page.elems[i]))
              => patterns.links # <<>>

\* The same for the <button> and <a> elements alone.
ButtonsAndAnchorsBucketed ==
    (Analyzed /\ ~AnalyzeFailed) =>
        LET patterns == lastCall.result.patterns IN
        /\ \A e \in MatchingElements(page) :
              /\ e.tag = "button" =>
                    /\ EntriesOf(patterns.buttons, e.id) = 1
                    /\ EntriesOf(patterns.links, e.id) = 0
              /\ e.tag = "a" =>
                    /\ EntriesOf(patterns.buttons, e.id) = 0
                    /\ EntriesOf(patterns.links, e.id) = 1
        /\ (\E i \in 1..Len(page.elems) : ShowMoreLink(page.elems[i]))
              => patterns.links # <<>>

\* The document of the analyzer's test has been scanned.
ShowMoreLinkScanned ==
    /\ Analyzed
    /\ ~AnalyzeFailed
    /\ \E i \in 1..Len(page.elems) : ShowMoreLink(page.elems[i])
    /\ Len(lastCall.result.patterns.links) = 1

(***************************************************************************)
(* expandHiddenContent on the elements themselves: execution.js and        *)
(* dist/content.js.  A hidden-content element is [display, visibility,     *)
(* ariaHidden, classes, dataHidden, dataCollapsed, box]: display and       *)
(* visibility say whether the inline style holds display: none and         *)
(* visibility: hidden, the attributes are "absent" or their value, and box *)
(* is the width and the height of its bounding rectangle, which is 0 for   *)
(* an element with display: none.  In this specification page.elems are    *)
(* the elements in document order.                                         *)
(***************************************************************************)
MaxMatches == 2

\* The sizes below which an element is skipped.
MinBox == 10
DistMinBox == 50

BoxSizes == {0, 30, 100}

HiddenElements ==
    {e \in [display : BOOLEAN, visibility : BOOLEAN,
            ariaHidden : {"absent", "true", "false"},
            classes : SUBSET {"hidden", "collapse", "show"},
            dataHidden : {"absent", "true"},
            dataCollapsed : {"absent", "true"},
            box : BoxSizes] :
        /\ e.display => e.box = 0
        /\ "show" \in e.classes => "collapse" \in e.classes}

\* The groups of the selector HIDDEN_CONTENT, in its order (the accordion
\* and tab groups are left out: the elements carry no such class).
HiddenSelectors ==
    <<".hidden", ".collapse:not(.show)", "[aria-hidden=true]", "display",
      "visibility", "[data-hidden=true]", "[data-collapsed=true]">>

Selects(selector, e) ==
    CASE selector = ".hidden" -> "hidden" \in e.classes
      [] selector = ".collapse:not(.show)" ->
            "collapse" \in e.classes /\ "show" \notin e.classes
      [] selector = "[aria-hidden=true]" -> e.ariaHidden = "true"
      [] selector = "display" -> e.display
      [] selector = "visibility" -> e.visibility
      [] selector = "[data-hidden=true]" -> e.dataHidden = "true"
      [] selector = "[data-collapsed=true]" -> e.dataCollapsed = "true"

\* The element matches SELECTORS.HIDDEN_CONTENT.
MatchesHidden(e) == \E k \in 1..Len(HiddenSelectors) : Selects(HiddenSelectors[k], e)

\* execution.js: what the callback of forEach does to one element, and what
\* it adds to expandedCount.
ExpandElement(e) ==
    IF e.box < MinBox THEN [elem |-> e, counted |-> 0]
    ELSE IF e.display THEN [elem |-> [e EXCEPT !.display = FALSE], counted |-> 1]
    ELSE IF e.visibility
        THEN [elem |-> [e EXCEPT !.visibility = FALSE], counted |-> 1]
    ELSE IF e.ariaHidden # "absent"
        THEN [elem |-> [e EXCEPT !.ariaHidden = "absent"], counted |-> 1]
    ELSE IF "hidden" \in e.classes
        THEN [elem |-> [e EXCEPT !.classes = @ \ {"hidden"}], counted |-> 1]
    ELSE [elem |-> e, counted |-> 0]

\* dist/content.js: what the inner callback does to one element.
DistExpandElement(e) ==
    IF e.box < DistMinBox THEN [elem |-> e, counted |-> 0]
    ELSE IF "hidden" \in e.classes
        THEN [elem |-> [e EXCEPT !.classes = @ \ {"hidden"}], counted |-> 1]
    ELSE IF "collapse" \in e.classes
        THEN [elem |-> [e EXCEPT !.classes = @ \cup {"show"}], counted |-> 1]
    ELSE IF e.ariaHidden # "absent"
        THEN [elem |-> [e EXCEPT !.ariaHidden = "false"], counted |-> 1]
    ELSE IF e.display THEN [elem |-> [e EXCEPT !.display = FALSE], counted |-> 1]
    ELSE IF e.visibility
        THEN [elem |-> [e EXCEPT !.visibility = FALSE], counted |-> 1]
    ELSE IF e.dataHidden # "absent"
        THEN [elem |-> [e EXCEPT !.dataHidden = "false"], counted |-> 1]
    ELSE IF e.dataCollapsed # "absent"
        THEN [elem |-> [e EXCEPT !.dataCollapsed = "false"], counted |-> 1]
    ELSE [elem |-> e, counted |-> 0]

\* dist/content.js: the passes of the selectors from the k-th on over one
\* element; r is the element and its count so far.  Each pass queries the
\* document anew, so it sees what the earlier passes did.
RECURSIVE DistPasses(_, _)
DistPasses(r, k) ==
    IF k > Len(HiddenSelectors) THEN r
    ELSE IF Selects(HiddenSelectors[k], r.elem)
        THEN DistPasses([elem |-> DistExpandElement(r.elem).elem,
                         counted |-> r.counted + DistExpandElement(r.elem).counted],
                        k + 1)
    ELSE DistPasses(r, k + 1)

RECURSIVE SumCounted(_)
SumCounted(rs) == IF rs = <<>> THEN 0 ELSE Head(rs).counted + SumCounted(Tail(rs))

\* execution.js expandHiddenContent(): querySelectorAll returns every
\* matching element once.
ExpandHiddenContent(elems) ==
    [i \in 1..Len(elems) |->
        IF MatchesHidden(elems[i]) THEN ExpandElement(elems[i])
        ELSE [elem |-> elems[i], counted |-> 0]]

\* dist/content.js expandHiddenContent(): one querySelectorAll per selector.
\* The elements do not affect one another, so the passes are taken element
\* by element.
DistExpandHiddenContent(elems) ==
    [i \in 1..Len(elems) |-> DistPasses([elem |-> elems[i], counted |-> 0], 1)]

\* A call: the elements before and after, what each element added to the
\* count, and the count returned.
ExpandCall(op, rs) ==
    /\ lastCall = NoCall
    /\ lastCall' = [op |-> op, before |-> page.elems,
                    counted |-> [i \in 1..Len(rs) |-> rs[i].counted],
                    ret |-> SumCounted(rs), minBox |-> IF op = "expand" THEN MinBox
                                                       ELSE DistMinBox]
    /\ page' = [page EXCEPT !.elems = [i \in 1..Len(rs) |-> rs[i].elem]]
    /\ UNCHANGED <<url, now, cache, loadMoreActive, loadMoreStopped, sessions,
                   events, alive, setAt, scans, rateLimiter, throttled,
                   autoDetection>>

ExpandHiddenContentCall == ExpandCall("expand", ExpandHiddenContent(page.elems))

DistExpandHiddenContentCall ==
    ExpandCall("distExpand", DistExpandHiddenContent(page.elems))

\* Documents of one to MaxMatches elements that match HIDDEN_CONTENT; those
\* of several elements are made of elements of one mechanism each.
SingleMechanism ==
    {e \in HiddenElements :
        /\ e.box \in {0, 100}
        /\ Cardinality({k \in 1..Len(HiddenSelectors) : Selects(HiddenSelectors[k], e)}) = 1
        /\ e.ariaHidden # "false" /\ "show" \notin e.classes}

HiddenDocuments ==
    {<<e>> : e \in {h \in HiddenElements : MatchesHidden(h)}}
    \cup UNION {[1..n -> SingleMechanism] : n \in 2..MaxMatches}

InitExpand ==
    /\ page \in {[elems |-> elems] : elems \in HiddenDocuments}
    /\ url = "u1"
    /\ now = 0
    /\ cache = EmptyCache
    /\ loadMoreActive = FALSE
    /\ loadMoreStopped = FALSE
    /\ sessions = <<>>
    /\ events = <<>>
    /\ alive = TRUE
    /\ lastCall = NoCall
    /\ setAt = 0
    /\ scans = 0
    /\ rateLimiter = <<>>
    /\ throttled = NewThrottle
    /\ autoDetection = NoDetection

NextExpand ==
    \/ ExpandHiddenContentCall
    \/ DistExpandHiddenContentCall

SpecExpand == InitExpand /\ [][NextExpand]_vars

\* The number of hiding mechanisms in which a and b differ.
Flips(b, a) ==
    Cardinality({f \in {"display", "visibility", "ariaHidden", "dataHidden",
                        "dataCollapsed"} : a[f] # b[f]})
    + Cardinality((a.classes \ b.classes) \cup (b.classes \ a.classes))

Expanded == lastCall.op \in {"expand", "distExpand"}

\* C38: one call flips exactly one hiding mechanism on every match whose
\* bounding box reaches the minimum size and leaves every smaller match as
\* it was; no element adds more than one to the count, and the count
\* returned is the number of elements modified.
C38_OneFlipPerMatch ==
    Expanded =>
        /\ \A i \in 1..Len(page.elems) :
              LET b == lastCall.before[i]
                  a == page.elems[i]
              IN /\ IF MatchesHidden(b) /\ b.box >= lastCall.minBox
                       THEN Flips(b, a) = 1
                       ELSE a = b
                 /\ lastCall.counted[i] <= 1
        /\ lastCall.ret
               = Cardinality({i \in 1..Len(page.elems) :
                                  page.elems[i] # lastCall.before[i]})

\* execution.js: an element is modified at most in one mechanism, small
\* elements are left alone, and the count is the number of elements modified.
ExecutionCountsModified ==
    lastCall.op = "expand" =>
        /\ \A i \in 1..Len(page.elems) :
              LET b == lastCall.before[i]
                  a == page.elems[i]
              IN /\ Flips(b, a) = lastCall.counted[i]
                 /\ lastCall.counted[i] <= 1
                 /\ b.box < MinBox => a = b
        /\ lastCall.ret
               = Cardinality({i \in 1..Len(page.elems) :
                                  page.elems[i] # lastCall.before[i]})

(***************************************************************************)
(* content.js: the keydown listener.  Alt+L starts a session with method   *)
(* 'auto' and then sends `started`; Alt+S stops and then sends `stopped`.  *)
(* startContentExpansion runs the first cycle of the session before it     *)
(* returns, so what that cycle sends is sent before `started`.             *)
(***************************************************************************)
Keys == {"l", "s"}

\* The closure variables of the session that Alt+L starts.
ShortcutSession(pg, c, u, t) ==
    [pc |-> "timer", clickCount |-> 0,
     lastContentCount |-> getCurrentContentCount(pg),
     maxClicks |-> DefaultMaxClicks, delay |-> DefaultDelay, requested |-> "auto",
     method |-> ExpansionMethod("auto",
                   scanPageContent(c, pg, u, t).result.detectionSummary.recommendedMethod),
     target |-> "none", clickFailed |-> FALSE]

\* startContentExpansion({method: 'auto'}) with its first cycle.
ShortcutStart(sid, pg, c, u, t, f, o) ==
    IF f = "start"
        THEN StepResult([ShortcutSession(pg, c, u, t) EXCEPT !.pc = "errored"], pg,
                        <<Emit(sid, "error", 0)>>, TRUE, TRUE, c)
    ELSE CycleStart(sid, ShortcutSession(pg, c, u, t), FALSE, pg,
                    scanPageContent(c, pg, u, t).cache, u, t, f, o)

\* The branch of Alt+L: the call, then notifyProgress('started', 0).
StartByShortcut(sid, r, f) ==
    /\ Apply(sid, [r EXCEPT !.emitted = @ \o <<Emit(sid, "started", 0)>>])
    /\ loadMoreActive' = ~r.deactivate
    /\ loadMoreStopped' = (f = "start")

\* The branch of Alt+S: stopContentExpansion(), then
\* notifyProgress('stopped', 0).
StopByShortcut ==
    /\ loadMoreStopped' = TRUE
    /\ loadMoreActive' = FALSE
    /\ events' = events \o
          <<[sid |-> 0, action |-> "stopped", count |-> 0, live |-> RunningSessions],
            [sid |-> 0, action |-> "stopped", count |-> 0, live |-> RunningSessions]>>
    /\ UNCHANGED <<page, cache, sessions, alive>>

\* The listener called for Alt+key: f and o are the fault and the outcome
\* of the call of startContentExpansion.
Keydown(key, f, o) ==
    /\ alive
    /\ key = "l" => Len(sessions) < MaxStarts
    /\ Len(events) + 2 < MaxEvents
    /\ f \in {"none", "start", "cycle"}
    /\ IF key = "l" /\ ~loadMoreActive
          THEN StartByShortcut(Len(sessions) + 1,
                               ShortcutStart(Len(sessions) + 1, page, cache, url,
                                             now, f, o), f)
       ELSE IF key = "s" /\ loadMoreActive
          THEN StopByShortcut
       ELSE UNCHANGED <<page, cache, sessions, alive, events, loadMoreActive,
                        loadMoreStopped>>
    /\ UNCHANGED <<url, now, lastCall, setAt, scans, rateLimiter, throttled,
                   autoDetection>>

NextKeys ==
    \/ \E key \in Keys, f \in Faults, o \in Outcomes : Keydown(key, f, o)
    \/ \E method \in {"button", "scroll"}, o \in Outcomes :
          StartSession(MaxClicks, method, o)
    \/ \E sid \in 1..MaxStarts, o \in Outcomes : TimerFires(sid, "none", o)
    \/ \E sid \in 1..MaxStarts, o \in Outcomes : PreClickSleepEnds(sid, "none", o)
    \/ \E sid \in 1..MaxStarts : DelayEnds(sid, "none")

SpecKeys == InitRestart /\ [][NextKeys]_vars

\* The positions in events of the `started` messages of the shortcut.
StartedAt == {k \in 1..Len(events) : events[k].action = "started"}

\* C39: the `started` message of a session started with Alt+L comes before
\* every other progress message of that session, and Alt+L starts no
\* session while loadMoreActive is true.
C39_StartedComesFirst ==
    /\ \A k \in StartedAt : \A j \in 1..(k - 1) : events[j].sid # events[k].sid
    /\ \A i \in 1..Len(sessions) :
          sessions[i].requested = "auto" => \E k \in StartedAt : events[k].sid = i

\* The shortcut starts a session only while loadMoreActive is false, and
\* every session it starts sends `started`.
ShortcutGuarded ==
    [][Len(sessions') > Len(sessions)
          /\ sessions'[Len(sessions')].requested = "auto"
       => /\ ~loadMoreActive
          /\ Last(events').action = "started"
          /\ Last(events').sid = Len(sessions')]_vars

\* A session started with Alt+L that has sent `complete` and then `started`.
CompleteBeforeStarted ==
    \E k \in StartedAt :
        k > 1 /\ events[k - 1].action = "complete" /\ events[k - 1].sid = events[k].sid

(***************************************************************************)
(* autoDetectionState with the elements it tracks.  In this specification  *)
(* page.elems maps an element to [visible, top, sides, tracked, original]: *)
(* top and sides are the inline border of the top side and of the three    *)
(* other sides, tracked and original the attributes data-bn-tracked and    *)
(* data-bn-original-border ("absent" or the value); page.initial keeps the *)
(* borders the document was loaded with and page.everTracked the elements  *)
(* that were tracked at some time.  autoDetection holds the fields of the  *)
(* object and timers, the intervals registered with the window: the handle *)
(* and the time each is due.  Date.now() is far from 0 when the script      *)
(* starts, so the first detection is never throttled: now starts at the    *)
(* throttle's length.                                                      *)
(***************************************************************************)
MaxIntervals == 2
MaxSeconds == 6

DetectionPeriod == 5000
DetectionThrottle == 2000

TrackedBorder == "1px dashed rgba(59, 130, 246, 0.3)"

Trackable == {"btn", "lnk"}

InlineBorders == {"", "2px solid red"}

\* element.style.border read: the shorthand has a value only when the four
\* sides agree.
GetBorder(e) == IF e.top = e.sides THEN e.top ELSE ""

\* element.style.border = v: every side is set, or removed when v is empty.
SetBorder(e, v) == [e EXCEPT !.top = v, !.sides = v]

NewAutoDetection ==
    [trackedElements |-> {}, lastDetectionTime |-> 0, detectionInterval |-> 0,
     isTracking |-> FALSE, timers |-> {}, handles |-> 0]

\* trackElement(element) on the elements of the page.
trackElement(tracked, elems, id) ==
    IF id \in tracked THEN elems
    ELSE [elems EXCEPT ![id] =
             [SetBorder(@, TrackedBorder) EXCEPT !.tracked = TRUE,
                                                 !.original = GetBorder(elems[id])]]

\* untrackElement(element) on the elements of the page.
untrackElement(tracked, elems, id) ==
    IF id \notin tracked THEN elems
    ELSE [elems EXCEPT ![id] =
             [SetBorder(@, IF elems[id].original = "absent" THEN ""
                           ELSE elems[id].original)
                 EXCEPT !.tracked = FALSE, !.original = "absent"]]

\* clearTracking() on the elements of the page.
clearTracking(tracked, elems) ==
    [id \in Trackable |-> untrackElement(tracked, elems, id)[id]]

VisibleElements(elems) == {id \in Trackable : elems[id].visible}

\* The body of performDetection when it is not throttled: the visible
\* elements are tracked, then the tracked ones that are not visible are
\* untracked.
DetectedElements(tracked, elems) ==
    [id \in Trackable |->
        IF elems[id].visible THEN trackElement(tracked, elems, id)[id]
        ELSE untrackElement(tracked, elems, id)[id]]

Throttled(d, t) == t - d.lastDetectionTime < DetectionThrottle

\* performDetection() at time t: autoDetectionState and the page after it.
DetectionState(d, t, elems) ==
    IF Throttled(d, t) THEN d
    ELSE [d EXCEPT !.lastDetectionTime = t,
                   !.trackedElements = VisibleElements(elems)]

DetectionPage(d, t, pg) ==
    IF Throttled(d, t) THEN pg
    ELSE [pg EXCEPT !.elems = DetectedElements(d.trackedElements, pg.elems),
                    !.everTracked = @ \cup VisibleElements(pg.elems)]

TrackingFrame ==
    UNCHANGED <<url, cache, loadMoreActive, loadMoreStopped, sessions, events,
                setAt, scans, rateLimiter, throttled>>

\* startAutoDetection(): called by the script's initialisation, by the load
\* listener and by the message START_AUTO_DETECTION.
StartTracking ==
    /\ alive
    /\ autoDetection.handles < MaxIntervals
    /\ IF autoDetection.isTracking
          THEN UNCHANGED <<autoDetection, page>>
          ELSE /\ autoDetection' =
                     [DetectionState([autoDetection EXCEPT !.isTracking = TRUE],
                                     now, page.elems)
                         EXCEPT !.detectionInterval = autoDetection.handles + 1,
                                !.handles = autoDetection.handles + 1,
                                !.timers = @ \cup {[handle |-> autoDetection.handles + 1,
                                                    due |-> now + DetectionPeriod]}]
               /\ page' = DetectionPage(autoDetection, now, page)
    /\ lastCall' = [op |-> "start", tracking |-> autoDetection.isTracking]
    /\ UNCHANGED <<now, alive>>
    /\ TrackingFrame

\* stopAutoDetection() on autoDetectionState.
stopAutoDetection(d) ==
    IF ~d.isTracking THEN d
    ELSE [d EXCEPT !.isTracking = FALSE,
                   !.detectionInterval = 0,
                   !.timers = IF d.detectionInterval # 0
                                 THEN {tm \in @ : tm.handle # d.detectionInterval}
                                 ELSE @]

\* stopAutoDetection() and then clearTracking(): the message
\* STOP_AUTO_DETECTION (stays is true) and the beforeunload and pagehide
\* listeners, after which the page is unloaded or stays.
StopAndClear(op, stays) ==
    /\ alive
    /\ autoDetection' = [stopAutoDetection(autoDetection) EXCEPT !.trackedElements = {}]
    /\ page' = [page EXCEPT !.elems = clearTracking(autoDetection.trackedElements, @)]
    /\ lastCall' = [op |-> op, tracked |-> autoDetection.trackedElements]
    /\ alive' = stays
    /\ UNCHANGED now
    /\ TrackingFrame

StopTracking == StopAndClear("stop", TRUE)

PageUnloads(stays) == StopAndClear("unload", stays)

\* A registered interval is due and its callback runs.
TrackingIntervalFires(tm) ==
    /\ alive
    /\ tm \in autoDetection.timers
    /\ now >= tm.due
    /\ autoDetection' =
           [DetectionState(autoDetection, now, page.elems)
               EXCEPT !.timers = (@ \ {tm}) \cup {[tm EXCEPT !.due = @ + DetectionPeriod]}]
    /\ page' = DetectionPage(autoDetection, now, page)
    /\ lastCall' = [op |-> "interval"]
    /\ UNCHANGED <<now, alive>>
    /\ TrackingFrame

\* One second passes.
SecondPasses ==
    /\ alive
    /\ now < DetectionThrottle + MaxSeconds * 1000
    /\ now' = now + 1000
    /\ lastCall' = NoCall
    /\ UNCHANGED <<page, autoDetection, alive>>
    /\ TrackingFrame

\* The page shows or hides one of the elements.
VisibilityChanges(id) ==
    /\ alive
    /\ page' = [page EXCEPT !.elems[id].visible = ~@]
    /\ lastCall' = NoCall
    /\ UNCHANGED <<now, autoDetection, alive>>
    /\ TrackingFrame

TrackingPages ==
    {[elems |-> [id \in Trackable |->
                    [visible |-> v[id], top |-> b[id].top, sides |-> b[id].sides,
                     tracked |-> FALSE, original |-> "absent"]],
      initial |-> b, everTracked |-> {}] :
        v \in [Trackable -> BOOLEAN],
        b \in [Trackable -> [top : InlineBorders, sides : InlineBorders]]}

InitTracking ==
    /\ page \in TrackingPages
    /\ url = "u1"
    /\ now = DetectionThrottle
    /\ cache = EmptyCache
    /\ loadMoreActive = FALSE
    /\ loadMoreStopped = FALSE
    /\ sessions = <<>>
    /\ events = <<>>
    /\ alive = TRUE
    /\ lastCall = NoCall
    /\ setAt = 0
    /\ scans = 0
    /\ rateLimiter = <<>>
    /\ throttled = NewThrottle
    /\ autoDetection = NewAutoDetection

NextTracking ==
    \/ StartTracking
    \/ StopTracking
    \/ \E stays \in BOOLEAN : PageUnloads(stays)
    \/ \E tm \in autoDetection.timers : TrackingIntervalFires(tm)
    \/ SecondPasses
    \/ \E id \in Trackable : VisibilityChanges(id)

SpecTracking == InitTracking /\ [][NextTracking]_vars

BorderOf(e) == [top |-> e.top, sides |-> e.sides]

\* C40: isTracking is true if and only if exactly one interval is
\* registered, and after stopAutoDetection followed by clearTracking no
\* interval remains, no element is tracked, and every element that was
\* tracked has the border it was loaded with and no data-bn-* attribute.
C40_StopRestoresElements ==
    /\ autoDetection.isTracking <=> Cardinality(autoDetection.timers) = 1
    /\ lastCall.op \in {"stop", "unload"} =>
          /\ autoDetection.timers = {}
          /\ autoDetection.trackedElements = {}
          /\ \A id \in page.everTracked :
                /\ BorderOf(page.elems[id]) = page.initial[id]
                /\ ~page.elems[id].tracked
                /\ page.elems[id].original = "absent"

\* At most one interval is registered, and exactly one while tracking; after
\* stopAutoDetection and clearTracking nothing is tracked, no element keeps
\* a data-bn-* attribute, and the elements whose four sides had the same
\* inline border have it again.
OneIntervalWhileTracking ==
    /\ autoDetection.isTracking <=> Cardinality(autoDetection.timers) = 1
    /\ Cardinality(autoDetection.timers) <= 1
    /\ lastCall.op \in {"stop", "unload"} =>
          /\ autoDetection.timers = {}
          /\ autoDetection.trackedElements = {}
          /\ \A id \in Trackable :
                /\ ~page.elems[id].tracked
                /\ page.elems[id].original = "absent"
                /\ page.initial[id].top = page.initial[id].sides
                      => BorderOf(page.elems[id]) = page.initial[id]

\* startAutoDetection while tracking changes nothing.
StartWhileTrackingIsNoOp ==
    [][(lastCall'.op = "start" /\ lastCall'.tracking)
          => UNCHANGED <<autoDetection, page>>]_vars

\* An element whose top border differed from the others was tracked and
\* the page is unloaded.
UnevenBorderUntracked ==
    /\ lastCall.op = "unload"
    /\ \E id \in lastCall.tracked : page.initial[id].top # page.initial[id].sides

====
